---- MODULE Spec2Model ----
(***************************************************************************)
(* Verification model of the SCIMP two-phase-commit coordinator chaincode  *)
(* (src/chaincode/scimp-coordinator.js, class ScimpCoordinatorChaincode).  *)
(*                                                                         *)
(* The ledger stub is modelled as the key/value store the chaincode is     *)
(* written against: getState of a key that was never put yields nothing    *)
(* (so the `|| Buffer.from('{}')` fallbacks apply), putState is visible to *)
(* the getState calls that follow it, and a handler that throws keeps the  *)
(* writes it made before throwing.  Every handler runs to completion       *)
(* before the next one starts (one action per handler), except in         *)
(* ConcSpec, where two prepare invocations run step by step.              *)
(*                                                                         *)
(* An epoch record keeps the fields the handlers read or decide on:        *)
(* status, phase, participants, preparations[p].status, startTime,         *)
(* timeout, commitConfirmations[p].status and abortReason.  The fields     *)
(* that are written and never read by the chaincode (votes, coordinator,   *)
(* metadata, preparation data, and the prepare / commit / abort /          *)
(* completion timestamps) are left out.  Object key order is not modelled: *)
(* cleanupTimeouts returns the set of the epochIds it aborted.             *)
(***************************************************************************)
EXTENDS Integers, Sequences, FiniteSets, TLC

\* ------------------------------------------------------------------ bounds
\* latest value of the clock (milliseconds are abstracted to ticks)
MaxTime == 2
\* number of chaincode invocations explored in one behaviour
MaxCalls == 6

\* ------------------------------------------------------------------ inputs
EpochIds == {"e1", "e2"}
\* "" is the missing argument rejected by the `!epochId` tests
EpochIdArgs == EpochIds \cup {""}
ChainIds == {"A", "B"}
\* the JSON arrays a caller passes as `participants` (the empty one included)
ParticipantLists == {<<>>, <<"A">>, <<"A", "B">>}
\* the timeout a caller passes, in ticks
Timeouts == {1}
\* the reason a caller passes to abort (its default value)
Reasons == {"MANUAL_ABORT"}

\* marks a record that has no abortReason field
NoReason == "NONE"

VARIABLES
    ledger,   \* the stub's state: epoch~{id} records and the three indexes
    now,      \* the clock read by `new Date()`
    calls,    \* number of invocations made so far
    prev,     \* the ledger as the last invocation found it
    last,     \* the last invocation: name, arguments, outcome, events set
    running   \* the invocations in progress: position and local variables

vars == <<ledger, now, calls, prev, last, running>>

\* ----------------------------------------------------------- JS helpers
\* obj[k] = v on a JSON object
Put(f, k, v) == [x \in DOMAIN f \cup {k} |-> IF x = k THEN v ELSE f[x]]
\* delete obj[k]
Del(f, k) == [x \in DOMAIN f \ {k} |-> f[x]]
\* the empty JSON object
EmptyObj == [x \in {} |-> x]

\* list.includes(x)
Includes(list, x) == \E i \in 1..Len(list) : list[i] = x
Elems(list) == {list[i] : i \in 1..Len(list)}

\* AllPrepared written with `some` in place of `every`
AllPrepared_Some(epoch) ==
    \E i \in 1..Len(epoch.participants) :
        epoch.preparations[epoch.participants[i]] = "PREPARED"

\* epoch.participants.every(p => epoch.preparations[p].status === 'PREPARED')
AllPrepared(epoch) ==
    \A i \in 1..Len(epoch.participants) :
        epoch.preparations[epoch.participants[i]] = "PREPARED"

\* AllConfirmed written with `some` in place of `every`
AllConfirmed_Some(epoch) ==
    \E i \in 1..Len(epoch.participants) :
        epoch.commitConfirmations[epoch.participants[i]] = "CONFIRMED"

\* epoch.participants.every(p => epoch.commitConfirmations[p].status === 'CONFIRMED')
AllConfirmed(epoch) ==
    \A i \in 1..Len(epoch.participants) :
        epoch.commitConfirmations[epoch.participants[i]] = "CONFIRMED"

\* now.getTime() - startTime.getTime() > epoch.timeout
TimedOut(epoch, t) == t - epoch.startTime > epoch.timeout

\* the outcome of a handler: the ledger it leaves, whether it returned or
\* threw, the error thrown, the events set, and what it returned
Result(L, ok, err, events, all, epochs) ==
    [ledger |-> L, ok |-> ok, err |-> err, events |-> events,
     all |-> all, epochs |-> epochs]

Throw(L, err) == Result(L, FALSE, err, <<>>, FALSE, {})
Event(name, e) == [name |-> name, epochId |-> e]

\* the epoch object built by beginEpoch
NewEpoch(participantList, timeout, t) ==
    [participants |-> participantList,
     preparations |-> [p \in Elems(participantList) |-> "WAITING"],
     commitConfirmations |-> EmptyObj,
     startTime |-> t,
     timeout |-> timeout,
     status |-> "PREPARING",
     phase |-> "PREPARE",
     abortReason |-> NoReason]

\* ------------------------------------------------------------- handlers
\* BeginEpochOp without its empty-list check (lines 54-56 dropped)
BeginEpochOp_NoEmptyCheck(L, e, participantList, timeout, t) ==
    IF e = "" THEN Throw(L, "required")
    ELSE IF e \in DOMAIN L.active THEN Throw(L, "already_exists")
    ELSE LET epoch == NewEpoch(participantList, timeout, t)
         IN  Result([L EXCEPT !.active = Put(L.active, e, epoch),
                              !.epoch = Put(L.epoch, e, epoch)],
                    TRUE, "", <<Event("EpochBegun", e)>>, FALSE, {})

BeginEpochOp(L, e, participantList, timeout, t) ==
    IF e = "" THEN Throw(L, "required")
    ELSE IF Len(participantList) = 0 THEN Throw(L, "empty_participants")
    ELSE IF e \in DOMAIN L.active THEN Throw(L, "already_exists")
    ELSE LET epoch == NewEpoch(participantList, timeout, t)
         IN  Result([L EXCEPT !.active = Put(L.active, e, epoch),
                              !.epoch = Put(L.epoch, e, epoch)],
                    TRUE, "", <<Event("EpochBegun", e)>>, FALSE, {})

\* the payload of the EpochAborted event (lines 319-324)
AbortedEvent(e, reason) == [name |-> "EpochAborted", epochId |-> e, reason |-> reason]

\* AbortEpochOp without its setEvent call (lines 318-324 dropped)
AbortEpochOp_Silent(L, e, reason) ==
    IF e \notin DOMAIN L.epoch THEN Throw(L, "not_found")
    ELSE LET epoch == [L.epoch[e] EXCEPT !.status = "ABORTED",
                                         !.phase = "COMPLETED",
                                         !.abortReason = reason]
         IN  Result([L EXCEPT !.epoch = Put(L.epoch, e, epoch),
                              !.active = Del(L.active, e),
                              !.aborted = Put(L.aborted, e, epoch)],
                    TRUE, "", <<>>, FALSE, {})

AbortEpochOp(L, e, reason) ==
    IF e \notin DOMAIN L.epoch THEN Throw(L, "not_found")
    ELSE LET epoch == [L.epoch[e] EXCEPT !.status = "ABORTED",
                                         !.phase = "COMPLETED",
                                         !.abortReason = reason]
         IN  Result([L EXCEPT !.epoch = Put(L.epoch, e, epoch),
                              !.active = Del(L.active, e),
                              !.aborted = Put(L.aborted, e, epoch)],
                    TRUE, "", <<AbortedEvent(e, reason)>>, FALSE, {})

AbortOp(L, e, reason) == AbortEpochOp(L, e, reason)

\* Prepared without the transition to PREPARED (lines 167-170 dropped)
Prepared_StaysPreparing(L, e, p) ==
    LET marked == [L.epoch[e] EXCEPT !.preparations[p] = "PREPARED"]
    IN  Result([L EXCEPT !.epoch = Put(L.epoch, e, marked),
                         !.active = Put(L.active, e, marked)],
               TRUE, "", <<Event("ParticipantPrepared", e)>>, AllPrepared(marked), {})

\* the state changes of a successful prepare (lines 155-196)
Prepared(L, e, p) ==
    LET marked == [L.epoch[e] EXCEPT !.preparations[p] = "PREPARED"]
        allPrepared == AllPrepared(marked)
        updated == IF allPrepared
                   THEN [marked EXCEPT !.status = "PREPARED", !.phase = "COMMIT"]
                   ELSE marked
    IN  Result([L EXCEPT !.epoch = Put(L.epoch, e, updated),
                         !.active = Put(L.active, e, updated)],
               TRUE, "", <<Event("ParticipantPrepared", e)>>, allPrepared, {})

\* the timeout branch of prepare: abort the epoch, then throw (lines 149-153)
PrepareTimedOut(L, e) ==
    LET a == AbortEpochOp(L, e, "TIMEOUT")
    IN  Result(a.ledger, FALSE, "timed_out", a.events, FALSE, {})

\* PrepareOp without its timeout check (lines 146-153 dropped)
PrepareOp_NoTimeoutCheck(L, e, p, t) ==
    IF e = "" \/ p = "" THEN Throw(L, "required")
    ELSE IF e \notin DOMAIN L.epoch THEN Throw(L, "not_found")
    ELSE IF L.epoch[e].status # "PREPARING" THEN Throw(L, "wrong_state")
    ELSE IF ~Includes(L.epoch[e].participants, p) THEN Throw(L, "not_participant")
    ELSE IF L.epoch[e].preparations[p] # "WAITING" THEN Throw(L, "already_prepared")
    ELSE Prepared(L, e, p)

\* PrepareOp without its epoch-state check (lines 131-134 dropped)
PrepareOp_NoStateCheck(L, e, p, t) ==
    IF e = "" \/ p = "" THEN Throw(L, "required")
    ELSE IF e \notin DOMAIN L.epoch THEN Throw(L, "not_found")
    ELSE IF ~Includes(L.epoch[e].participants, p) THEN Throw(L, "not_participant")
    ELSE IF L.epoch[e].preparations[p] # "WAITING" THEN Throw(L, "already_prepared")
    ELSE IF TimedOut(L.epoch[e], t) THEN PrepareTimedOut(L, e)
    ELSE Prepared(L, e, p)

PrepareOp(L, e, p, t) ==
    IF e = "" \/ p = "" THEN Throw(L, "required")
    ELSE IF e \notin DOMAIN L.epoch THEN Throw(L, "not_found")
    ELSE IF L.epoch[e].status # "PREPARING" THEN Throw(L, "wrong_state")
    ELSE IF ~Includes(L.epoch[e].participants, p) THEN Throw(L, "not_participant")
    ELSE IF L.epoch[e].preparations[p] # "WAITING" THEN Throw(L, "already_prepared")
    ELSE IF TimedOut(L.epoch[e], t) THEN PrepareTimedOut(L, e)
    ELSE Prepared(L, e, p)

\* Committed without the initialisation of commitConfirmations (lines
\* 238-245 dropped)
Committed_NoConfirmations(L, e) ==
    LET epoch == L.epoch[e]
        committed == [epoch EXCEPT !.status = "COMMITTED", !.phase = "COMPLETED"]
    IN  Result([L EXCEPT !.epoch = Put(L.epoch, e, committed),
                         !.active = Del(L.active, e),
                         !.completed = Put(L.completed, e, committed)],
               TRUE, "", <<Event("EpochCommitted", e)>>, FALSE, {})

\* Committed writing an empty ACTIVE_EPOCHS in place of deleting its own
\* entry (line 250)
Committed_ClearsActive(L, e) ==
    LET epoch == L.epoch[e]
        committed ==
            [epoch EXCEPT !.status = "COMMITTED",
                          !.phase = "COMPLETED",
                          !.commitConfirmations =
                              [p \in Elems(epoch.participants) |-> "PENDING"]]
    IN  Result([L EXCEPT !.epoch = Put(L.epoch, e, committed),
                         !.active = EmptyObj,
                         !.completed = Put(L.completed, e, committed)],
               TRUE, "", <<Event("EpochCommitted", e)>>, FALSE, {})

\* the state changes of a successful commit (lines 233-260)
Committed(L, e) ==
    LET epoch == L.epoch[e]
        committed ==
            [epoch EXCEPT !.status = "COMMITTED",
                          !.phase = "COMPLETED",
                          !.commitConfirmations =
                              [p \in Elems(epoch.participants) |-> "PENDING"]]
    IN  Result([L EXCEPT !.epoch = Put(L.epoch, e, committed),
                         !.active = Del(L.active, e),
                         !.completed = Put(L.completed, e, committed)],
               TRUE, "", <<Event("EpochCommitted", e)>>, FALSE, {})

\* CommitOp without its epoch-state check (lines 219-222 dropped)
CommitOp_NoStateCheck(L, e) ==
    IF e = "" THEN Throw(L, "required")
    ELSE IF e \notin DOMAIN L.epoch THEN Throw(L, "not_found")
    ELSE IF ~AllPrepared(L.epoch[e]) THEN Throw(L, "not_all_prepared")
    ELSE Committed(L, e)

\* CommitOp with the timeout check prepare makes (lines 146-153) added to it
CommitOp_TimeoutChecked(L, e) ==
    IF e = "" THEN Throw(L, "required")
    ELSE IF e \notin DOMAIN L.epoch THEN Throw(L, "not_found")
    ELSE IF L.epoch[e].status # "PREPARED" THEN Throw(L, "wrong_state")
    ELSE IF ~AllPrepared(L.epoch[e]) THEN Throw(L, "not_all_prepared")
    ELSE IF TimedOut(L.epoch[e], now)
         THEN PrepareTimedOut(L, e)
    ELSE Committed(L, e)

CommitOp(L, e) ==
    IF e = "" THEN Throw(L, "required")
    ELSE IF e \notin DOMAIN L.epoch THEN Throw(L, "not_found")
    ELSE IF L.epoch[e].status # "PREPARED" THEN Throw(L, "wrong_state")
    ELSE IF ~AllPrepared(L.epoch[e]) THEN Throw(L, "not_all_prepared")
    ELSE Committed(L, e)

\* ConfirmCommitOp looking the epoch up in ACTIVE_EPOCHS, which commit has
\* deleted it from, instead of COMPLETED_EPOCHS (lines 340-343)
ConfirmCommitOp_FromActive(L, e, p) ==
    IF e \notin DOMAIN L.active THEN Throw(L, "committed_not_found")
    ELSE LET epoch == L.active[e] IN
    IF epoch.status # "COMMITTED" THEN Throw(L, "not_committed")
    ELSE LET marked == IF p \in DOMAIN epoch.commitConfirmations
                       THEN [epoch EXCEPT !.commitConfirmations[p] = "CONFIRMED"]
                       ELSE epoch
             allConfirmed == AllConfirmed(marked)
             updated == IF allConfirmed
                        THEN [marked EXCEPT !.status = "COMPLETED"]
                        ELSE marked
         IN  Result([L EXCEPT !.completed = Put(L.completed, e, updated),
                              !.epoch = Put(L.epoch, e, updated)],
                    TRUE, "", <<Event("CommitConfirmed", e)>>, allConfirmed, {})

ConfirmCommitOp(L, e, p) ==
    IF e \notin DOMAIN L.completed THEN Throw(L, "committed_not_found")
    ELSE LET epoch == L.completed[e] IN
    IF epoch.status # "COMMITTED" THEN Throw(L, "not_committed")
    ELSE LET marked == IF p \in DOMAIN epoch.commitConfirmations
                       THEN [epoch EXCEPT !.commitConfirmations[p] = "CONFIRMED"]
                       ELSE epoch
             allConfirmed == AllConfirmed(marked)
             updated == IF allConfirmed
                        THEN [marked EXCEPT !.status = "COMPLETED"]
                        ELSE marked
         IN  Result([L EXCEPT !.completed = Put(L.completed, e, updated),
                              !.epoch = Put(L.epoch, e, updated)],
                    TRUE, "", <<Event("CommitConfirmed", e)>>, allConfirmed, {})

\* the loop of cleanupTimeouts over the entries of the ACTIVE_EPOCHS object
\* read at the start of the call: `todo` are the entries not yet visited
RECURSIVE CleanupLoop(_, _, _, _, _)
CleanupLoop(L, activeEpochs, todo, t, acc) ==
    IF todo = {} THEN Result(L, TRUE, "", acc.events, FALSE, acc.epochs)
    ELSE LET e == CHOOSE x \in todo : TRUE
             rest == todo \ {e}
         IN  IF TimedOut(activeEpochs[e], t)
             THEN LET a == AbortEpochOp(L, e, "TIMEOUT")
                  IN  IF a.ok
                      THEN CleanupLoop(a.ledger, activeEpochs, rest, t,
                                       [events |-> acc.events \o a.events,
                                        epochs |-> acc.epochs \cup {e}])
                      ELSE Result(L, FALSE, a.err, acc.events, FALSE, {})
             ELSE CleanupLoop(L, activeEpochs, rest, t, acc)

\* CleanupTimeoutsOp that lists the timed-out epochs without aborting them
\* (line 446 dropped)
CleanupTimeoutsOp_ListsOnly(L, t) ==
    Result(L, TRUE, "", <<>>, FALSE,
           {e \in DOMAIN L.active : TimedOut(L.active[e], t)})

CleanupTimeoutsOp(L, t) ==
    CleanupLoop(L, L.active, DOMAIN L.active, t, [events |-> <<>>, epochs |-> {}])

\* --------------------------------------------------------------- actions
Call(op, e, p, r) ==
    /\ calls < MaxCalls
    /\ calls' = calls + 1
    /\ prev' = ledger
    /\ ledger' = r.ledger
    /\ last' = [ok |-> r.ok, err |-> r.err, events |-> r.events, all |-> r.all,
                epochs |-> r.epochs, epochId |-> e, op |-> op,
                participantId |-> p]
    /\ UNCHANGED <<now, running>>

NoCall == [ok |-> TRUE, err |-> "", events |-> <<>>, all |-> FALSE,
           epochs |-> {}, epochId |-> "", op |-> "none", participantId |-> ""]

\* the invocations that can be in progress at the same time
Invocations == {"i1", "i2"}
\* an invocation that has not been submitted
Idle == [epoch |-> EmptyObj, ok |-> FALSE, err |-> "",
         all |-> FALSE, activeEpochs |-> EmptyObj, participantId |-> "", pc |-> "idle"]

\* initLedger: ACTIVE_EPOCHS is put as {}; the other keys do not exist yet
InitLedger == [epoch |-> EmptyObj, active |-> EmptyObj,
               aborted |-> EmptyObj, completed |-> EmptyObj]

Init ==
    /\ ledger = InitLedger
    /\ now = 0
    /\ calls = 0
    /\ prev = InitLedger
    /\ last = NoCall
    /\ running = [i \in Invocations |-> Idle]

\* The two epoch ids are interchangeable, so "e2" is only used once "e1" has
\* been: every other behaviour is one of these with the ids swapped.
BeginEpoch(e, participantList, timeout) ==
    /\ e = "e2" => "e1" \in DOMAIN ledger.epoch
    /\ Call("beginEpoch", e, "", BeginEpochOp(ledger, e, participantList, timeout, now))

Prepare(e, p) == Call("prepare", e, p, PrepareOp(ledger, e, p, now))

Commit(e) == Call("commit", e, "", CommitOp(ledger, e))

Abort(e, reason) == Call("abort", e, "", AbortOp(ledger, e, reason))

ConfirmCommit(e, p) == Call("confirmCommit", e, p, ConfirmCommitOp(ledger, e, p))

CleanupTimeouts == Call("cleanupTimeouts", "", "", CleanupTimeoutsOp(ledger, now))

\* time passes between two invocations
Tick ==
    /\ now < MaxTime
    /\ now' = now + 1
    /\ prev' = ledger
    /\ last' = [NoCall EXCEPT !.op = "tick"]
    /\ UNCHANGED <<ledger, calls, running>>

Next ==
    \/ \E e \in EpochIdArgs, pl \in ParticipantLists, t \in Timeouts : BeginEpoch(e, pl, t)
    \/ \E e \in EpochIds, p \in ChainIds : Prepare(e, p)
    \/ \E e \in EpochIdArgs : Commit(e)
    \/ \E e \in EpochIds, r \in Reasons : Abort(e, r)
    \/ \E e \in EpochIds, p \in ChainIds : ConfirmCommit(e, p)
    \/ CleanupTimeouts
    \/ Tick

Spec == Init /\ [][Next]_vars

\* ------------------------------------------- the coordinator over time
\* The same handlers, run without an end for the properties that say what
\* eventually happens.  The callers make at most LiveCalls invocations of
\* their own choice and begin an epoch only while the clock leaves room for
\* its timeout to elapse; time advances up to MaxTime; cleanupTimeouts is
\* invoked again and again by whoever operates the coordinator (nothing in
\* the chaincode schedules it).
LiveCalls == 3

LiveBeginEpoch(e, participantList, timeout) ==
    /\ calls < LiveCalls
    /\ now + timeout < MaxTime
    /\ BeginEpoch(e, participantList, timeout)

LiveCall ==
    /\ calls < LiveCalls
    /\ \/ \E e \in EpochIds, p \in ChainIds : Prepare(e, p)
       \/ \E e \in EpochIds : Commit(e)
       \/ \E e \in EpochIds, r \in Reasons : Abort(e, r)
       \/ \E e \in EpochIds, p \in ChainIds : ConfirmCommit(e, p)

\* an invocation of cleanupTimeouts by the operator
Reap ==
    LET r == CleanupTimeoutsOp(ledger, now)
    IN  /\ prev' = ledger
        /\ ledger' = r.ledger
        /\ last' = [ok |-> r.ok, err |-> r.err, events |-> r.events,
                    all |-> r.all, epochs |-> r.epochs, epochId |-> "",
                    op |-> "cleanupTimeouts", participantId |-> ""]
        /\ UNCHANGED <<now, calls, running>>

LiveNext ==
    \/ \E e \in EpochIds, pl \in ParticipantLists, t \in Timeouts :
           LiveBeginEpoch(e, pl, t)
    \/ LiveCall
    \/ Reap
    \/ Tick

\* weak fairness: time keeps advancing and cleanupTimeouts keeps being invoked
LiveSpec == Init /\ [][LiveNext]_vars /\ WF_vars(Tick) /\ WF_vars(Reap)

\* ---------------------------- prepare, one ledger access at a time
\* Two invocations of prepare on the same epoch, each advancing by one
\* awaited stub call at a time (getState and putState are the only points
\* where the handler yields); nothing in the chaincode orders them.  The
\* timeout branch calls abortEpoch, taken here as one step.
ConcEpoch == "e1"

\* invocation i returns or throws
Return(i, ok, err) ==
    running' = [running EXCEPT ![i].pc = "done", ![i].ok = ok, ![i].err = err]

\* prepare(ConcEpoch, p) is submitted as invocation i
Submit(i, p) ==
    /\ running[i].pc = "idle"
    /\ running' = [running EXCEPT ![i].pc = "getEpoch", ![i].participantId = p]
    /\ UNCHANGED <<ledger, now, calls, prev, last>>

\* lines 124-170: getState(epoch~id), then the checks, the clock read and
\* the update of the local copy, none of which touches the ledger
GetEpoch(i) ==
    LET e == ConcEpoch
        p == running[i].participantId
    IN  /\ running[i].pc = "getEpoch"
        /\ IF e \notin DOMAIN ledger.epoch THEN Return(i, FALSE, "not_found")
           ELSE IF ledger.epoch[e].status # "PREPARING"
                THEN Return(i, FALSE, "wrong_state")
           ELSE IF ~Includes(ledger.epoch[e].participants, p)
                THEN Return(i, FALSE, "not_participant")
           ELSE IF ledger.epoch[e].preparations[p] # "WAITING"
                THEN Return(i, FALSE, "already_prepared")
           ELSE IF TimedOut(ledger.epoch[e], now)
                THEN running' = [running EXCEPT ![i].pc = "abortEpoch"]
           ELSE LET r == Prepared(ledger, e, p)
                IN  running' = [running EXCEPT ![i].pc = "putEpoch",
                                               ![i].epoch = r.ledger.epoch[e],
                                               ![i].all = r.all]
        /\ UNCHANGED <<ledger, now, calls, prev, last>>

\* lines 149-153: abortEpoch(ctx, epochId, 'TIMEOUT'), then throw
AbortTimedOut(i) ==
    /\ running[i].pc = "abortEpoch"
    /\ ledger' = AbortEpochOp(ledger, ConcEpoch, "TIMEOUT").ledger
    /\ Return(i, FALSE, "timed_out")
    /\ UNCHANGED <<now, calls, prev, last>>

\* line 173: putState(epoch~id) of the local copy
PutEpoch(i) ==
    /\ running[i].pc = "putEpoch"
    /\ ledger' = [ledger EXCEPT !.epoch = Put(ledger.epoch, ConcEpoch, running[i].epoch)]
    /\ running' = [running EXCEPT ![i].pc = "getActive"]
    /\ UNCHANGED <<now, calls, prev, last>>

\* lines 176-177: getState(ACTIVE_EPOCHS)
GetActive(i) ==
    /\ running[i].pc = "getActive"
    /\ running' = [running EXCEPT ![i].pc = "putActive",
                                  ![i].activeEpochs = ledger.active]
    /\ UNCHANGED <<ledger, now, calls, prev, last>>

\* lines 178-196: putState(ACTIVE_EPOCHS), set the event, return
PutActive(i) ==
    /\ running[i].pc = "putActive"
    /\ ledger' = [ledger EXCEPT !.active =
                      Put(running[i].activeEpochs, ConcEpoch, running[i].epoch)]
    /\ Return(i, TRUE, "")
    /\ UNCHANGED <<now, calls, prev, last>>

\* an epoch has been begun; no prepare has been submitted yet
ConcInit ==
    /\ \E pl \in ParticipantLists \ {<<>>}, t \in Timeouts :
           ledger = BeginEpochOp(InitLedger, ConcEpoch, pl, t, 0).ledger
    /\ now = 0
    /\ calls = 0
    /\ prev = InitLedger
    /\ last = NoCall
    /\ running = [i \in Invocations |-> Idle]

ConcNext ==
    \/ \E i \in Invocations, p \in ChainIds : Submit(i, p)
    \/ \E i \in Invocations : GetEpoch(i)
    \/ \E i \in Invocations : AbortTimedOut(i)
    \/ \E i \in Invocations : PutEpoch(i)
    \/ \E i \in Invocations : GetActive(i)
    \/ \E i \in Invocations : PutActive(i)
    \/ Tick

ConcSpec == ConcInit /\ [][ConcNext]_vars

\* ------------------------------------------------- the anchor registry
\* The mainchain chaincode of src/chaincode/anchor-registry.js (class
\* AnchorRegistryChaincode), run on a ledger of its own: in AnchorSpec
\* `ledger` is that chaincode's world state, a map from the key strings to
\* the values put under them, and `last` describes its last invocation.
\* The timestamp and txId of an anchor record are written and never read;
\* they are left out.

\* number of invocations of the anchor registry explored in one behaviour
MaxAnchorCalls == 3

\* the validator set put by initLedger (the ids are abbreviated)
InitialValidators == <<"v1", "v2", "v3">>
\* the value put under REQUIRED_SIGNATURES by initLedger
InitialRequiredSignatures == 2

\* argument values: "" is a missing argument
AnchorChainArgs == {"A", "B", ""}
BlockNumbers == {"1"}
MerkleRoots == {"r1", "r2"}
\* the metadata argument: its default, and a string that is not JSON
Metadatas == {"{}", "{"}
ValidatorArgs == {"v1", "v4"}
\* a signatures argument that JSON.parse rejects
BadJson == [json |-> FALSE, array |-> <<>>]

\* the ways an entry of the signatures array is made for validator v:
\* signed over the message, made up, or left empty
Signed(v) == [validator |-> v, kind |-> "signed"]
Forged(v) == [validator |-> v, kind |-> "forged"]
Unsigned(v) == [validator |-> v, kind |-> "empty"]
SignatureLists ==
    {<<>>,
     <<Signed("v1")>>,
     <<Signed("v1"), Signed("v2")>>,
     <<Signed("v1"), Signed("v1")>>,
     <<Forged("v1"), Forged("v2")>>,
     <<Signed("v1"), Signed("v4")>>,
     <<Signed("v1"), Unsigned("v2")>>}

\* `root~${chainId}~${blockNumber}`
createRootKey(chainId, blockNumber) == "root~" \o chainId \o "~" \o blockNumber

\* `chain~${chainId}~${blockNumber}`
createIndexKey(chainId, blockNumber) == "chain~" \o chainId \o "~" \o blockNumber

\* sha256 of `${chainId}:${blockNumber}:${merkleRoot}`: a digest is
\* represented by what was hashed
createMessageHash(chainId, blockNumber, merkleRoot) ==
    <<"sha256", chainId \o ":" \o blockNumber \o ":" \o merkleRoot>>

\* sha256(messageHash + sig.validator), the signature verifySignatures expects
ExpectedSig(messageHash, validator) == <<"sha256", messageHash, validator>>

\* the {validator, signature} object a caller sends for an entry of a list
SigFor(entry, messageHash) ==
    [validator |-> entry.validator,
     signature |-> IF entry.kind = "signed"
                   THEN ExpectedSig(messageHash, entry.validator)
                   ELSE IF entry.kind = "forged" THEN "made up" ELSE ""]

\* the signatures argument made from a list for a message: the JSON text
\* of the array of its entries
SignaturesFor(list, messageHash) ==
    [json |-> TRUE, array |-> [i \in 1..Len(list) |-> SigFor(list[i], messageHash)]]

\* parseInt of the block numbers passed
\* (parseInt reads the leading digits and stops at the first other character)
ParseInt(blockNumber) ==
    CASE blockNumber = "1" -> 1
      [] blockNumber = "2" -> 2
      [] blockNumber = "01" -> 1
      [] blockNumber = "1~2" -> 1

\* JSON.parse(metadata) returns
ParsesAsJson(text) == text = "{}"

\* verifySignatures: the entries that name a validator and carry a
\* non-empty signature; expectedSig is computed and compared with nothing
verifySignatures(messageHash, signatures, validators) ==
    LET Accepted(sig) ==
            /\ sig.validator # ""
            /\ Includes(validators, sig.validator)
            /\ sig.signature # ""
    IN  SelectSeq(signatures, Accepted)

\* the outcome of an anchor-registry handler
AnchorResult(L, ok, err, events) == [ledger |-> L, ok |-> ok, err |-> err, events |-> events]
AnchorThrow(L, err) == AnchorResult(L, FALSE, err, <<>>)

\* the record stored under the root key
AnchoredRoot(chainId, blockNumber, merkleRoot, validSignatures) ==
    [status |-> "ANCHORED",
     chainId |-> chainId,
     blockNumber |-> ParseInt(blockNumber),
     merkleRoot |-> merkleRoot,
     validatorSignatures |-> validSignatures]

\* AnchorRootOp without its existing-root check (lines 51-55 dropped)
AnchorRootOp_NoDuplicateCheck(L, chainId, blockNumber, merkleRoot, signatures, metadata) ==
    IF chainId = "" \/ blockNumber = "" \/ merkleRoot = ""
    THEN AnchorThrow(L, "required")
    ELSE LET rootKey == createRootKey(chainId, blockNumber) IN
    IF ~signatures.json THEN AnchorThrow(L, "invalid_signatures_format")
    ELSE IF "VALIDATORS" \notin DOMAIN L \/ "REQUIRED_SIGNATURES" \notin DOMAIN L
         THEN AnchorThrow(L, "not_initialized")
    ELSE LET parsedSignatures == signatures.array
             validators == L["VALIDATORS"]
             requiredSignatures == L["REQUIRED_SIGNATURES"]
         IN
    IF Len(parsedSignatures) < requiredSignatures
    THEN AnchorThrow(L, "insufficient_signatures")
    ELSE LET messageHash == createMessageHash(chainId, blockNumber, merkleRoot)
             validSignatures == verifySignatures(messageHash, parsedSignatures, validators)
         IN
    IF Len(validSignatures) < requiredSignatures
    THEN AnchorThrow(L, "invalid_signatures")
    ELSE IF ~ParsesAsJson(metadata) THEN AnchorThrow(L, "invalid_metadata")
    ELSE AnchorResult(
             Put(Put(L, rootKey,
                     AnchoredRoot(chainId, blockNumber, merkleRoot, validSignatures)),
                 createIndexKey(chainId, blockNumber), rootKey),
             TRUE, "",
             <<[name |-> "RootAnchored", chainId |-> chainId,
                blockNumber |-> ParseInt(blockNumber), merkleRoot |-> merkleRoot]>>)

\* AnchorRootOp that parses the metadata (line 96) after the putState of
\* line 101
AnchorRootOp_StoresBeforeMetadata(L, chainId, blockNumber, merkleRoot, signatures, metadata) ==
    IF chainId = "" \/ blockNumber = "" \/ merkleRoot = ""
    THEN AnchorThrow(L, "required")
    ELSE LET rootKey == createRootKey(chainId, blockNumber) IN
    IF rootKey \in DOMAIN L THEN AnchorThrow(L, "already_anchored")
    ELSE IF ~signatures.json THEN AnchorThrow(L, "invalid_signatures_format")
    ELSE IF "VALIDATORS" \notin DOMAIN L \/ "REQUIRED_SIGNATURES" \notin DOMAIN L
         THEN AnchorThrow(L, "not_initialized")
    ELSE LET parsedSignatures == signatures.array
             validators == L["VALIDATORS"]
             requiredSignatures == L["REQUIRED_SIGNATURES"]
         IN
    IF Len(parsedSignatures) < requiredSignatures
    THEN AnchorThrow(L, "insufficient_signatures")
    ELSE LET messageHash == createMessageHash(chainId, blockNumber, merkleRoot)
             validSignatures == verifySignatures(messageHash, parsedSignatures, validators)
         IN
    IF Len(validSignatures) < requiredSignatures
    THEN AnchorThrow(L, "invalid_signatures")
    ELSE IF ~ParsesAsJson(metadata)
         THEN AnchorThrow(Put(L, rootKey,
                              AnchoredRoot(chainId, blockNumber, merkleRoot, validSignatures)),
                          "invalid_metadata")
    ELSE AnchorResult(
             Put(Put(L, rootKey,
                     AnchoredRoot(chainId, blockNumber, merkleRoot, validSignatures)),
                 createIndexKey(chainId, blockNumber), rootKey),
             TRUE, "",
             <<[name |-> "RootAnchored", chainId |-> chainId,
                blockNumber |-> ParseInt(blockNumber), merkleRoot |-> merkleRoot]>>)

AnchorRootOp(L, chainId, blockNumber, merkleRoot, signatures, metadata) ==
    IF chainId = "" \/ blockNumber = "" \/ merkleRoot = ""
    THEN AnchorThrow(L, "required")
    ELSE LET rootKey == createRootKey(chainId, blockNumber) IN
    IF rootKey \in DOMAIN L THEN AnchorThrow(L, "already_anchored")
    ELSE IF ~signatures.json THEN AnchorThrow(L, "invalid_signatures_format")
    ELSE IF "VALIDATORS" \notin DOMAIN L \/ "REQUIRED_SIGNATURES" \notin DOMAIN L
         THEN AnchorThrow(L, "not_initialized")
    ELSE LET parsedSignatures == signatures.array
             validators == L["VALIDATORS"]
             requiredSignatures == L["REQUIRED_SIGNATURES"]
         IN
    IF Len(parsedSignatures) < requiredSignatures
    THEN AnchorThrow(L, "insufficient_signatures")
    ELSE LET messageHash == createMessageHash(chainId, blockNumber, merkleRoot)
             validSignatures == verifySignatures(messageHash, parsedSignatures, validators)
         IN
    IF Len(validSignatures) < requiredSignatures
    THEN AnchorThrow(L, "invalid_signatures")
    ELSE IF ~ParsesAsJson(metadata) THEN AnchorThrow(L, "invalid_metadata")
    ELSE AnchorResult(
             Put(Put(L, rootKey,
                     AnchoredRoot(chainId, blockNumber, merkleRoot, validSignatures)),
                 createIndexKey(chainId, blockNumber), rootKey),
             TRUE, "",
             <<[name |-> "RootAnchored", chainId |-> chainId,
                blockNumber |-> ParseInt(blockNumber), merkleRoot |-> merkleRoot]>>)

AddValidatorOp(L, validatorId) ==
    IF Includes(L["VALIDATORS"], validatorId)
    THEN AnchorThrow(L, "validator_exists")
    ELSE AnchorResult(Put(L, "VALIDATORS", Append(L["VALIDATORS"], validatorId)),
                      TRUE, "", <<[name |-> "ValidatorAdded", validatorId |-> validatorId]>>)

\* the world state initLedger leaves
AnchorInitLedger ==
    Put(Put(EmptyObj, "VALIDATORS", InitialValidators),
        "REQUIRED_SIGNATURES", InitialRequiredSignatures)

AnchorNoCall ==
    [ok |-> TRUE, err |-> "", events |-> <<>>, op |-> "none",
     chainId |-> "", blockNumber |-> "", merkleRoot |-> "",
     signatures |-> BadJson, metadata |-> "", validatorId |-> ""]

AnchorInit ==
    /\ ledger = AnchorInitLedger
    /\ now = 0
    /\ calls = 0
    /\ prev = AnchorInitLedger
    /\ last = AnchorNoCall
    /\ running = [i \in Invocations |-> Idle]

\* one invocation of the anchor registry
AnchorCall(call, r) ==
    /\ calls < MaxAnchorCalls
    /\ calls' = calls + 1
    /\ prev' = ledger
    /\ ledger' = r.ledger
    /\ last' = [call EXCEPT !.ok = r.ok, !.err = r.err, !.events = r.events]
    /\ UNCHANGED <<now, running>>

AnchorRoot(chainId, blockNumber, merkleRoot, signatures, metadata) ==
    AnchorCall([AnchorNoCall EXCEPT !.op = "anchorRoot", !.chainId = chainId,
                                    !.blockNumber = blockNumber,
                                    !.merkleRoot = merkleRoot,
                                    !.signatures = signatures,
                                    !.metadata = metadata],
               AnchorRootOp(ledger, chainId, blockNumber, merkleRoot, signatures, metadata))

AddValidator(validatorId) ==
    AnchorCall([AnchorNoCall EXCEPT !.op = "addValidator", !.validatorId = validatorId],
               AddValidatorOp(ledger, validatorId))

AnchorNext ==
    \/ \E c \in AnchorChainArgs, b \in BlockNumbers, r \in MerkleRoots,
          list \in SignatureLists, m \in Metadatas :
           AnchorRoot(c, b, r, SignaturesFor(list, createMessageHash(c, b, r)), m)
    \/ \E c \in AnchorChainArgs, b \in BlockNumbers, r \in MerkleRoots, m \in Metadatas :
           AnchorRoot(c, b, r, BadJson, m)
    \/ \E v \in ValidatorArgs : AddValidator(v)

AnchorSpec == AnchorInit /\ [][AnchorNext]_vars

\* ------------------------------------- the anchor registry contract
\* The Solidity contract AnchorRegistry (src/unnamed/part_004).  In
\* EvmAnchorSpec `ledger` is the contract's storage (anchors, isValidator,
\* requiredSignatures, validatorsList), `now` is block.timestamp, which is
\* never 0, and `last` describes the last transaction or call.  A
\* transaction that reverts leaves the storage as it found it.

\* number of transactions explored in one behaviour
MaxEvmCalls == 3

ZeroAddress == "0x0"
Addresses == {"a1", "a2", "a3"}
\* the address ecrecover yields for a signature made over another message
Stranger == "a9"
EvmChainIds == {1, 2}
EvmBlockNumbers == {1}
\* the (_validators, _requiredSignatures) the contract is deployed with
ConstructorArgs ==
    {<<(<<"a1", "a2">>), 2>>, <<(<<"a1", "a2", "a3">>), 2>>, <<(<<"a1", "a1">>), 2>>,
     <<(<<"a1", "a2">>), 3>>, <<(<<"a1", ZeroAddress>>), 1>>}

\* a signature: 65 bytes made by `signer` over `message`, or bytes of
\* another length
EvmSig(signer, message) == [signer |-> signer, message |-> message, length |-> 65]
ShortSig == [signer |-> ZeroAddress, message |-> <<>>, length |-> 64]
\* the ways the i-th signature of a transaction is made
EvmSignatureLists ==
    {<<>>,
     <<"a1">>,
     <<"a1", "a2">>,
     <<"a1", "a1">>,
     <<"a1", "short">>,
     <<"a1", "wrong">>,
     <<"a1", "a3">>}

\* keccak256(abi.encodePacked(chainId, blockNumber)): a digest is
\* represented by what was hashed (both fields have a fixed width)
AnchorKey(chainId, blockNumber) == <<"keccak256", chainId, blockNumber>>
\* keccak256(abi.encodePacked(chainId, blockNumber, merkleRoot))
AnchorMessage(chainId, blockNumber, merkleRoot) ==
    <<"keccak256", chainId, blockNumber, merkleRoot>>

EvmSignaturesFor(list, message) ==
    [i \in 1..Len(list) |->
        IF list[i] = "short" THEN ShortSig
        ELSE IF list[i] = "wrong" THEN EvmSig("a2", <<"keccak256", 0, 0, "r0">>)
        ELSE EvmSig(list[i], message)]

\* recoverSigner: address(0) for a signature that is not 65 bytes, else
\* the address ecrecover yields: the signer for the message signed, some
\* other address for any other message
recoverSigner(hash, sig) ==
    IF sig.length # 65 THEN ZeroAddress
    ELSE IF sig.message = hash THEN sig.signer
    ELSE Stranger

\* the value of anchors[key]: the zero struct for a key never written
ZeroAnchor == [chainId |-> 0, blockNumber |-> 0, root |-> "0x0",
               timestamp |-> 0, submitter |-> ZeroAddress]
AnchorAt(L, key) == IF key \in DOMAIN L.anchors THEN L.anchors[key] ELSE ZeroAnchor

\* the loop of anchorRoot over the signatures from index i on: the number
\* of distinct validators counted when it ends or breaks
RECURSIVE CountValid(_, _, _, _, _, _)
CountValid(L, message, signatures, i, seenAddrs, valid) ==
    IF i > Len(signatures) THEN valid
    ELSE LET signer == recoverSigner(message, signatures[i])
         IN  IF signatures[i].length # 65 \/ signer = ZeroAddress
                \/ signer \notin L.isValidator \/ signer \in seenAddrs
             THEN CountValid(L, message, signatures, i + 1, seenAddrs, valid)
             ELSE IF valid + 1 >= L.requiredSignatures THEN valid + 1
             ELSE CountValid(L, message, signatures, i + 1,
                             seenAddrs \cup {signer}, valid + 1)

\* the outcome of a transaction: the storage it leaves, whether it
\* returned or reverted, the events emitted, the value returned
EvmResult(L, ok, err, events, value) ==
    [ledger |-> L, ok |-> ok, err |-> err, events |-> events, value |-> value]
Revert(L, err) == EvmResult(L, FALSE, err, <<>>, <<>>)

\* the loop of the constructor: each validator not yet in the list is pushed
RECURSIVE PushNew(_, _)
PushNew(validators, list) ==
    IF validators = <<>> THEN list
    ELSE PushNew(Tail(validators),
                 IF Includes(list, Head(validators)) THEN list
                 ELSE Append(list, Head(validators)))

\* the constructor: the storage of a deployed contract, or a revert
Constructor(validators, required) ==
    LET Empty == [requiredSignatures |-> 0, anchors |-> EmptyObj,
                  isValidator |-> {}, validatorsList |-> <<>>]
    IN  IF Len(validators) = 0 THEN Revert(Empty, "must provide validators")
        ELSE IF ~(required > 0 /\ required <= Len(validators))
             THEN Revert(Empty, "invalid required signatures")
        ELSE IF Includes(validators, ZeroAddress) THEN Revert(Empty, "invalid validator")
        ELSE EvmResult([Empty EXCEPT
                           !.requiredSignatures = required,
                           !.isValidator = Elems(validators),
                           !.validatorsList = PushNew(validators, <<>>)],
                       TRUE, "", <<>>, <<>>)

\* EvmAnchorRootOp without its require on anchors[key].timestamp (line 40
\* dropped)
EvmAnchorRootOp_Overwrites(L, chainId, blockNumber, merkleRoot, signatures, sender, t) ==
    LET key == AnchorKey(chainId, blockNumber)
        message == AnchorMessage(chainId, blockNumber, merkleRoot)
    IN  IF ~(Len(signatures) >= L.requiredSignatures)
             THEN Revert(L, "not enough signatures")
        ELSE IF ~(CountValid(L, message, signatures, 1, {}, 0) >= L.requiredSignatures)
             THEN Revert(L, "insufficient valid signatures")
        ELSE EvmResult([L EXCEPT !.anchors =
                           Put(L.anchors, key,
                               [chainId |-> chainId, blockNumber |-> blockNumber,
                                root |-> merkleRoot, timestamp |-> t,
                                submitter |-> sender])],
                       TRUE, "",
                       <<[name |-> "RootAnchored", chainId |-> chainId,
                          blockNumber |-> blockNumber, merkleRoot |-> merkleRoot]>>,
                       <<>>)

EvmAnchorRootOp(L, chainId, blockNumber, merkleRoot, signatures, sender, t) ==
    LET key == AnchorKey(chainId, blockNumber)
        message == AnchorMessage(chainId, blockNumber, merkleRoot)
    IN  IF AnchorAt(L, key).timestamp # 0
        THEN Revert(L, "root already anchored for this chain/block")
        ELSE IF ~(Len(signatures) >= L.requiredSignatures)
             THEN Revert(L, "not enough signatures")
        ELSE IF ~(CountValid(L, message, signatures, 1, {}, 0) >= L.requiredSignatures)
             THEN Revert(L, "insufficient valid signatures")
        ELSE EvmResult([L EXCEPT !.anchors =
                           Put(L.anchors, key,
                               [chainId |-> chainId, blockNumber |-> blockNumber,
                                root |-> merkleRoot, timestamp |-> t,
                                submitter |-> sender])],
                       TRUE, "",
                       <<[name |-> "RootAnchored", chainId |-> chainId,
                          blockNumber |-> blockNumber, merkleRoot |-> merkleRoot]>>,
                       <<>>)

\* getAnchor: the (root, timestamp, submitter) of anchors[key]
GetAnchorOp(L, chainId, blockNumber) ==
    LET a == AnchorAt(L, AnchorKey(chainId, blockNumber))
    IN  EvmResult(L, TRUE, "", <<>>, <<a.root, a.timestamp, a.submitter>>)

EvmAddValidatorOp(L, v) ==
    IF v = ZeroAddress THEN Revert(L, "require")
    ELSE IF v \notin L.isValidator
         THEN EvmResult([L EXCEPT !.isValidator = @ \cup {v},
                                  !.validatorsList = Append(@, v)],
                        TRUE, "", <<[name |-> "ValidatorAdded", validator |-> v]>>, <<>>)
    ELSE EvmResult(L, TRUE, "", <<>>, <<>>)

\* the list after the first occurrence of v is overwritten with the last
\* entry and the list is popped
SwapRemove(list, v) ==
    IF ~Includes(list, v) THEN list
    ELSE LET i == CHOOSE k \in 1..Len(list) :
                      list[k] = v /\ \A j \in 1..(k - 1) : list[j] # v
             moved == [list EXCEPT ![i] = list[Len(list)]]
         IN  SubSeq(moved, 1, Len(list) - 1)

EvmRemoveValidatorOp(L, v) ==
    IF v \in L.isValidator
    THEN EvmResult([L EXCEPT !.isValidator = @ \ {v},
                             !.validatorsList = SwapRemove(@, v)],
                   TRUE, "", <<[name |-> "ValidatorRemoved", validator |-> v]>>, <<>>)
    ELSE EvmResult(L, TRUE, "", <<>>, <<>>)

EvmNoCall ==
    [ok |-> TRUE, err |-> "", events |-> <<>>, op |-> "none",
     validator |-> "", chainId |-> 0, blockNumber |-> 0, merkleRoot |-> "",
     signatures |-> <<>>, value |-> <<>>]

\* the contract has been deployed with arguments its constructor accepts
EvmAnchorInit ==
    /\ \E args \in ConstructorArgs :
           /\ Constructor(args[1], args[2]).ok
           /\ ledger = Constructor(args[1], args[2]).ledger
           /\ prev = Constructor(args[1], args[2]).ledger
    /\ now = 1
    /\ calls = 0
    /\ last = EvmNoCall
    /\ running = [i \in Invocations |-> Idle]

\* one transaction sent to, or one call made on, the contract
EvmCall(call, r) ==
    /\ calls < MaxEvmCalls
    /\ calls' = calls + 1
    /\ prev' = ledger
    /\ ledger' = r.ledger
    /\ last' = [call EXCEPT !.ok = r.ok, !.err = r.err, !.events = r.events,
                            !.value = r.value]
    /\ UNCHANGED <<now, running>>

EvmAnchorRoot(chainId, blockNumber, merkleRoot, signatures, sender) ==
    EvmCall([EvmNoCall EXCEPT !.op = "anchorRoot", !.chainId = chainId,
                              !.blockNumber = blockNumber, !.merkleRoot = merkleRoot,
                              !.signatures = signatures],
            EvmAnchorRootOp(ledger, chainId, blockNumber, merkleRoot, signatures,
                            sender, now))

GetAnchor(chainId, blockNumber) ==
    EvmCall([EvmNoCall EXCEPT !.op = "getAnchor", !.chainId = chainId,
                              !.blockNumber = blockNumber],
            GetAnchorOp(ledger, chainId, blockNumber))

EvmAddValidator(v) ==
    EvmCall([EvmNoCall EXCEPT !.op = "addValidator", !.validator = v],
            EvmAddValidatorOp(ledger, v))

EvmRemoveValidator(v) ==
    EvmCall([EvmNoCall EXCEPT !.op = "removeValidator", !.validator = v],
            EvmRemoveValidatorOp(ledger, v))

\* a later block
EvmTick ==
    /\ now < MaxTime
    /\ now' = now + 1
    /\ UNCHANGED <<ledger, calls, prev, last, running>>

EvmAnchorNext ==
    \/ \E c \in EvmChainIds, b \in EvmBlockNumbers, r \in MerkleRoots,
          list \in EvmSignatureLists :
           EvmAnchorRoot(c, b, r, EvmSignaturesFor(list, AnchorMessage(c, b, r)), "a1")
    \/ \E c \in EvmChainIds, b \in EvmBlockNumbers : GetAnchor(c, b)
    \/ \E v \in Addresses \cup {ZeroAddress} : EvmAddValidator(v)
    \/ \E v \in Addresses : EvmRemoveValidator(v)
    \/ EvmTick

EvmAnchorSpec == EvmAnchorInit /\ [][EvmAnchorNext]_vars

\* ------------------------------------------- keys of the anchor registry
\* The anchor registry chaincode called with chain ids and block numbers as
\* clients may write them: anchorRoot takes both as strings and checks only
\* that they are not empty (anchor-registry.js lines 45-47).  KeySpec shares
\* AnchorInit and the AnchorRoot action with AnchorSpec.

KeyChainArgs == {"A", "A~1"}
KeyBlockArgs == {"1", "01", "2", "1~2"}
\* the keys createRootKey makes for these arguments
KeyRootKeys == {createRootKey(c, b) : c \in KeyChainArgs, b \in KeyBlockArgs}

KeyNext ==
    \E c \in KeyChainArgs, b \in KeyBlockArgs, r \in MerkleRoots :
        AnchorRoot(c, b, r,
                   SignaturesFor(<<Signed("v1"), Signed("v2")>>, createMessageHash(c, b, r)),
                   "{}")

KeySpec == AnchorInit /\ [][KeyNext]_vars

\* --------------------------------------------- the sidechain verifier
\* The chaincode SidechainVerifierChaincode (src/unnamed/part_005).  In
\* VerifierSpec `ledger` is its world state: CONFIG, TRUSTED_ROOTS (the
\* object of trusted roots by `${sourceChain}:${blockNumber}`) and one key
\* verification~<hash> per verified transaction.  `last` describes the last
\* invocation and, in `prior`, the one before it.

\* number of invocations explored in one behaviour
MaxVerifierCalls == 3

\* crypto.createHash('sha256').update(text).digest('hex'): a digest is
\* represented by the text that was hashed
sha256(text) == "h(" \o text \o ")"

\* MerkleFold that hashes (computedHash, sibling) whatever the left flag says
RECURSIVE MerkleFold_IgnoresFlag(_, _, _)
MerkleFold_IgnoresFlag(computedHash, proof, i) ==
    IF i > Len(proof) THEN computedHash
    ELSE MerkleFold_IgnoresFlag(sha256(computedHash \o proof[i].hash), proof, i + 1)

\* verifyMerkleProof: the loop over the proof elements from element i on
RECURSIVE MerkleFold(_, _, _)
MerkleFold(computedHash, proof, i) ==
    IF i > Len(proof) THEN computedHash
    ELSE MerkleFold(IF proof[i].left
                    THEN sha256(computedHash \o proof[i].hash)
                    ELSE sha256(proof[i].hash \o computedHash),
                    proof, i + 1)

verifyMerkleProof(leaf, proof, root) == MerkleFold(leaf, proof, 1) = root

\* argument values: "" is a missing argument
SourceChainArgs == {"A", ""}
VerifierBlockArgs == {"1", "2"}
TransactionDatas == {"t1", "t2"}
\* the root of the tree over the hashes of t1 and t2, the root of the tree
\* with the one leaf t1, and a root of no tree
TwoLeafRoot == sha256(sha256("t1") \o sha256("t2"))
TrustedRootArgs == {TwoLeafRoot, sha256("t1"), "wrong"}
\* the merkleProof argument: the JSON text of an array of {hash, left}
\* objects, or a string JSON.parse rejects
ProofJson(array) == [json |-> TRUE, array |-> array]
BadProofJson == [json |-> FALSE, array |-> <<>>]
MerkleProofArgs ==
    {ProofJson(<<>>),
     ProofJson(<<[hash |-> sha256("t2"), left |-> TRUE]>>),
     ProofJson(<<[hash |-> sha256("t1"), left |-> FALSE]>>),
     ProofJson(<<[hash |-> sha256("t2"), left |-> FALSE]>>),
     ProofJson(<<[hash |-> "tampered_hash", left |-> TRUE]>>),
     BadProofJson}
\* the proof argument of setTrustedRoot: its default, and a string that is
\* not JSON
RelayProofArgs == {"{}", "{"}
\* ctx.clientIdentity.getID()
ClientId == "client"

\* `${sourceChain}:${blockNumber}`
TrustedRootKey(sourceChain, blockNumber) == sourceChain \o ":" \o blockNumber
\* `verification~${transactionHash}`
VerificationKey(transactionHash) == "verification~" \o transactionHash

VerifierInitLedger ==
    Put(Put(EmptyObj, "CONFIG", [status |-> "ACTIVE", trustedMainchain |-> "mainchain"]),
        "TRUSTED_ROOTS", EmptyObj)

SetTrustedRootOp(L, sourceChain, blockNumber, merkleRoot, proof) ==
    IF sourceChain = "" \/ blockNumber = "" \/ merkleRoot = ""
    THEN AnchorThrow(L, "required")
    ELSE LET trustedRoots == L["TRUSTED_ROOTS"]
             rootKey == TrustedRootKey(sourceChain, blockNumber)
         IN
    IF ~ParsesAsJson(proof) THEN AnchorThrow(L, "invalid_proof_json")
    ELSE LET rootInfo == [status |-> "TRUSTED",
                          blockNumber |-> ParseInt(blockNumber),
                          merkleRoot |-> merkleRoot,
                          sourceChain |-> sourceChain,
                          verifiedTransactions |-> <<>>]
         IN  AnchorResult(Put(L, "TRUSTED_ROOTS", Put(trustedRoots, rootKey, rootInfo)),
                          TRUE, "",
                          <<[name |-> "TrustedRootSet", blockNumber |-> ParseInt(blockNumber),
                             merkleRoot |-> merkleRoot,
                             sourceChain |-> sourceChain]>>)

VerificationRecord(transactionHash, sourceChain, blockNumber, transactionData) ==
    [status |-> "VERIFIED",
     blockNumber |-> ParseInt(blockNumber),
     sourceChain |-> sourceChain,
     transactionHash |-> transactionHash,
     transactionData |-> transactionData,
     verifier |-> ClientId]

\* VerifyTransactionOp that stores the verification record (lines 136-137)
\* before it tests isValid (lines 120-122)
VerifyTransactionOp_RecordsFirst(L, sourceChain, blockNumber, transactionData, merkleProof) ==
    IF sourceChain = "" \/ blockNumber = "" \/ transactionData = ""
    THEN AnchorThrow(L, "required")
    ELSE LET trustedRoots == L["TRUSTED_ROOTS"]
             rootKey == TrustedRootKey(sourceChain, blockNumber)
         IN
    IF rootKey \notin DOMAIN trustedRoots THEN AnchorThrow(L, "no_trusted_root")
    ELSE IF ~merkleProof.json THEN AnchorThrow(L, "invalid_proof_format")
    ELSE LET trustedRoot == trustedRoots[rootKey]
             proof == merkleProof.array
             transactionHash == sha256(transactionData)
             isValid == verifyMerkleProof(transactionHash, proof, trustedRoot.merkleRoot)
         IN
    IF ~isValid
    THEN AnchorThrow(Put(L, VerificationKey(transactionHash),
                         VerificationRecord(transactionHash, sourceChain, blockNumber,
                                            transactionData)),
                     "proof_invalid")
    ELSE LET verificationRecord ==
                 VerificationRecord(transactionHash, sourceChain, blockNumber,
                                    transactionData)
             updated == [trustedRoot EXCEPT
                            !.verifiedTransactions = Append(@, transactionHash)]
         IN  AnchorResult(
                 Put(Put(L, VerificationKey(transactionHash), verificationRecord),
                     "TRUSTED_ROOTS", Put(trustedRoots, rootKey, updated)),
                 TRUE, "",
                 <<[name |-> "TransactionVerified", record |-> verificationRecord]>>)

VerifyTransactionOp(L, sourceChain, blockNumber, transactionData, merkleProof) ==
    IF sourceChain = "" \/ blockNumber = "" \/ transactionData = ""
    THEN AnchorThrow(L, "required")
    ELSE LET trustedRoots == L["TRUSTED_ROOTS"]
             rootKey == TrustedRootKey(sourceChain, blockNumber)
         IN
    IF rootKey \notin DOMAIN trustedRoots THEN AnchorThrow(L, "no_trusted_root")
    ELSE IF ~merkleProof.json THEN AnchorThrow(L, "invalid_proof_format")
    ELSE LET trustedRoot == trustedRoots[rootKey]
             proof == merkleProof.array
             transactionHash == sha256(transactionData)
             isValid == verifyMerkleProof(transactionHash, proof, trustedRoot.merkleRoot)
         IN
    IF ~isValid THEN AnchorThrow(L, "proof_invalid")
    ELSE LET verificationRecord ==
                 VerificationRecord(transactionHash, sourceChain, blockNumber,
                                    transactionData)
             updated == [trustedRoot EXCEPT
                            !.verifiedTransactions = Append(@, transactionHash)]
         IN  AnchorResult(
                 Put(Put(L, VerificationKey(transactionHash), verificationRecord),
                     "TRUSTED_ROOTS", Put(trustedRoots, rootKey, updated)),
                 TRUE, "",
                 <<[name |-> "TransactionVerified", record |-> verificationRecord]>>)

\* what identifies an invocation: the function and its arguments
VerifierArgs(call) ==
    <<call.op, call.sourceChain, call.blockNumber, call.merkleRoot,
      call.transactionData, call.merkleProof, call.proof>>

VerifierNoCall ==
    [ok |-> TRUE, err |-> "", events |-> <<>>, op |-> "none",
     blockNumber |-> "", merkleRoot |-> "", proof |-> "",
     sourceChain |-> "", transactionData |-> "", merkleProof |-> BadProofJson,
     prior |-> [ok |-> TRUE, args |-> <<>>]]

VerifierInit ==
    /\ ledger = VerifierInitLedger
    /\ now = 0
    /\ calls = 0
    /\ prev = VerifierInitLedger
    /\ last = VerifierNoCall
    /\ running = [i \in Invocations |-> Idle]

\* one invocation of the verifier
VerifierCall(call, r) ==
    /\ calls < MaxVerifierCalls
    /\ calls' = calls + 1
    /\ prev' = ledger
    /\ ledger' = r.ledger
    /\ last' = [call EXCEPT !.ok = r.ok, !.err = r.err, !.events = r.events,
                            !.prior = [ok |-> last.ok, args |-> VerifierArgs(last)]]
    /\ UNCHANGED <<now, running>>

SetTrustedRoot(sourceChain, blockNumber, merkleRoot, proof) ==
    VerifierCall([VerifierNoCall EXCEPT !.op = "setTrustedRoot",
                                        !.sourceChain = sourceChain,
                                        !.blockNumber = blockNumber,
                                        !.merkleRoot = merkleRoot,
                                        !.proof = proof],
                 SetTrustedRootOp(ledger, sourceChain, blockNumber, merkleRoot, proof))

VerifyTransaction(sourceChain, blockNumber, transactionData, merkleProof) ==
    VerifierCall([VerifierNoCall EXCEPT !.op = "verifyTransaction",
                                        !.sourceChain = sourceChain,
                                        !.blockNumber = blockNumber,
                                        !.transactionData = transactionData,
                                        !.merkleProof = merkleProof],
                 VerifyTransactionOp(ledger, sourceChain, blockNumber, transactionData,
                                     merkleProof))

VerifierNext ==
    \/ \E c \in SourceChainArgs, b \in VerifierBlockArgs, r \in TrustedRootArgs,
          p \in RelayProofArgs : SetTrustedRoot(c, b, r, p)
    \/ \E c \in SourceChainArgs, b \in VerifierBlockArgs, t \in TransactionDatas,
          p \in MerkleProofArgs : VerifyTransaction(c, b, t, p)

VerifierSpec == VerifierInit /\ [][VerifierNext]_vars

\* --------------------------------------- batches given to the verifier
\* verifyTransactionBatch, with setTrustedRoot and verifyTransaction, on a
\* verifier that has no trusted root yet or has been given the same root
\* for two blocks.  `last` carries the batch and the report returned.

\* the merkleProof of a batch item: an array, or absent
\* (JSON.stringify(undefined) is undefined, which verifyTransaction refuses)
ItemProof(array) == [array |-> array, given |-> TRUE]
NoItemProof == [array |-> <<>>, given |-> FALSE]
BatchItems ==
    {[blockNumber |-> b, sourceChain |-> "A", transactionData |-> t, merkleProof |-> p] :
        b \in VerifierBlockArgs, t \in TransactionDatas,
        p \in {ItemProof(<<>>), NoItemProof}}
\* batch.transactions of the batchData argument, or a string that
\* JSON.parse rejects
BatchJson(transactions) == [json |-> TRUE, transactions |-> transactions]
BadBatchJson == [json |-> FALSE, transactions |-> <<>>]
BatchArgs ==
    {BatchJson(<<>>)} \cup {BatchJson(<<x>>) : x \in BatchItems}
                      \cup {BatchJson(<<x, y>>) : x \in BatchItems, y \in BatchItems}

\* the call of verifyTransaction made for one item (lines 214-220)
VerifyItem(L, tx) ==
    IF ~tx.merkleProof.given THEN AnchorThrow(L, "required")
    ELSE VerifyTransactionOp(L, tx.sourceChain, tx.blockNumber, tx.transactionData,
                             ProofJson(tx.merkleProof.array))

\* verifyTransactionBatch whose loop ends at the first item that fails
RECURSIVE BatchLoop_StopsAtFailure(_, _, _, _, _)
BatchLoop_StopsAtFailure(L, transactions, i, results, events) ==
    IF i > Len(transactions) THEN [ledger |-> L, events |-> events, results |-> results]
    ELSE LET r == VerifyItem(L, transactions[i])
         IN  IF r.ok
             THEN BatchLoop_StopsAtFailure(r.ledger, transactions, i + 1,
                      Append(results, [success |-> TRUE, error |-> ""]),
                      events \o r.events)
             ELSE [ledger |-> r.ledger,
                   events |-> events,
                   results |-> Append(results, [success |-> FALSE, error |-> r.err])]

\* the loop of verifyTransactionBatch from item i on (lines 212-225)
RECURSIVE BatchLoop(_, _, _, _, _)
BatchLoop(L, transactions, i, results, events) ==
    IF i > Len(transactions) THEN [ledger |-> L, events |-> events, results |-> results]
    ELSE LET r == VerifyItem(L, transactions[i])
         IN  BatchLoop(r.ledger, transactions, i + 1,
                       Append(results, [success |-> r.ok, error |-> r.err]),
                       events \o r.events)

NoReport ==
    [results |-> <<>>, totalTransactions |-> 0,
     successfulVerifications |-> 0, failedVerifications |-> 0]

VerifyTransactionBatchOp(L, batchData) ==
    IF ~batchData.json
    THEN AnchorThrow(L, "invalid_batch") @@ [report |-> NoReport]
    ELSE LET done == BatchLoop(L, batchData.transactions, 1, <<>>, <<>>)
         IN  AnchorResult(done.ledger, TRUE, "", done.events) @@
             [report |->
                 [results |-> done.results,
                  totalTransactions |-> Len(batchData.transactions),
                  successfulVerifications |->
                      Len(SelectSeq(done.results, LAMBDA r : r.success)),
                  failedVerifications |->
                      Len(SelectSeq(done.results, LAMBDA r : ~r.success))]]

BatchNoCall == VerifierNoCall @@ [report |-> NoReport, batch |-> BadBatchJson]

\* the world state after setTrustedRoot('A', '1', r) and
\* setTrustedRoot('A', '2', r) for the root r of the tree with the leaf t1
TwoTrustedRoots ==
    SetTrustedRootOp(
        SetTrustedRootOp(VerifierInitLedger, "A", "1", sha256("t1"), "{}").ledger,
        "A", "2", sha256("t1"), "{}").ledger

BatchInit ==
    /\ ledger \in {VerifierInitLedger, TwoTrustedRoots}
    /\ prev = ledger
    /\ now = 0
    /\ calls = 0
    /\ last = BatchNoCall
    /\ running = [i \in Invocations |-> Idle]

VerifyTransactionBatch(batchData) ==
    LET r == VerifyTransactionBatchOp(ledger, batchData)
    IN  VerifierCall([BatchNoCall EXCEPT !.op = "verifyTransactionBatch",
                                          !.batch = batchData,
                                          !.report = r.report],
                     r)

BatchNext ==
    \/ \E b \in VerifierBlockArgs, r \in {sha256("t1"), "wrong"} :
           SetTrustedRoot("A", b, r, "{}")
    \/ \E b \in VerifierBlockArgs, t \in TransactionDatas :
           VerifyTransaction("A", b, t, ProofJson(<<>>))
    \/ \E batchData \in BatchArgs \cup {BadBatchJson} : VerifyTransactionBatch(batchData)

BatchSpec == BatchInit /\ [][BatchNext]_vars

\* ------------------------------------------------------ Merkle proofs
\* The proof verifiers of the repository: verifyMerkleProof of the verifier
\* chaincode (src/unnamed/part_005) and verifyProof of the Solidity
\* contract SidechainVerifier, applied to the same proof objects; and the
\* Merkle engine (lib/merkle, class ScimpMerkle) that the demos call to make
\* batches and proofs.  In MerkleSpec `ledger` is the proof object
\* presented to the verifiers ({leaf, proof, root}), `prev` the proof
\* object it was made from, and `last` the operation that made it, with
\* what each verifier returns for `ledger` and returned for `prev`.  A
\* digest is written in hex on both sides; a bytes32 value is denoted by
\* the hex text of its 32 bytes.

\* largest batch a proof is generated for
MaxBatch == 5
\* number of proof objects made in one behaviour: the first and those made
\* from it
MaxMerkleCalls == 3

\* abi.encodePacked(a, b) of two bytes32 values: their 64 bytes, which are
\* not the 128 characters of hex text that the chaincode hashes
encodePacked(a, b) == "0x" \o a \o b

\* the loop of verifyProof from element i on
RECURSIVE ProofLoop(_, _, _, _)
ProofLoop(computed, proof, lefts, i) ==
    IF i > Len(proof) THEN computed
    ELSE ProofLoop(IF lefts[i]
                   THEN sha256(encodePacked(proof[i], computed))
                   ELSE sha256(encodePacked(computed, proof[i])),
                   proof, lefts, i + 1)

\* SidechainVerifier.verifyProof
verifyProof(leaf, proof, lefts, expectedRoot) ==
    ProofLoop(leaf, proof, lefts, 1) = expectedRoot

\* the arrays demo_anchor_flow.js makes of a proof object
proofHexes(proof) == [i \in 1..Len(proof) |-> proof[i].hash]
leftsOf(proof) == [i \in 1..Len(proof) |-> proof[i].left]

\* --- the Merkle engine, as the specification describes it
\* the batch createBatch makes: count transactions
createBatch(count) == [i \in 1..count |-> "t" \o ToString(i)]
\* the hash of a tree node over its left and right child
NodeHash(l, r) == sha256(l \o r)
\* the level above a level of the tree: nodes are paired from the left and
\* a last node without a partner is paired with itself
LevelAbove(level) ==
    [j \in 1..((Len(level) + 1) \div 2) |->
        NodeHash(level[2 * j - 1],
                 IF 2 * j <= Len(level) THEN level[2 * j] ELSE level[2 * j - 1])]
LeafLevel(batch) == [i \in 1..Len(batch) |-> sha256(batch[i])]

RECURSIVE RootOf(_)
RootOf(level) == IF Len(level) = 1 THEN level[1] ELSE RootOf(LevelAbove(level))

\* the path from node idx (1-based) of a level to the root: at each level
\* the sibling's hash and whether the sibling is on the left
RECURSIVE PathFrom(_, _)
PathFrom(level, idx) ==
    IF Len(level) = 1 THEN <<>>
    ELSE LET onRight == idx % 2 = 0
             sibling == IF onRight THEN idx - 1
                        ELSE IF idx + 1 <= Len(level) THEN idx + 1 ELSE idx
         IN  <<[hash |-> level[sibling], left |-> onRight]>>
                 \o PathFrom(LevelAbove(level), (idx + 1) \div 2)

\* generateProof(batch, index), index counted from 0
generateProof(batch, index) ==
    [root |-> RootOf(LeafLevel(batch)),
     proof |-> PathFrom(LeafLevel(batch), index + 1),
     leaf |-> LeafLevel(batch)[index + 1]]

\* the engine's verifyProof: (sibling, acc) is hashed when the sibling is
\* on the left, (acc, sibling) otherwise
RECURSIVE EngineLoop(_, _, _)
EngineLoop(acc, proof, i) ==
    IF i > Len(proof) THEN acc
    ELSE EngineLoop(IF proof[i].left THEN NodeHash(proof[i].hash, acc)
                    ELSE NodeHash(acc, proof[i].hash),
                    proof, i + 1)
merkleVerifyProof(leafHash, proof, expectedRoot) ==
    EngineLoop(leafHash, proof, 1) = expectedRoot

\* --- proof objects presented to the verifiers
LeafArgs == {sha256("t1"), sha256("t2")}
ProofElements == {[hash |-> h, left |-> l] : h \in LeafArgs, l \in BOOLEAN}
ProofArgs ==
    {<<>>} \cup {<<e>> : e \in ProofElements}
           \cup {<<e, f>> : e \in ProofElements, f \in ProofElements}
\* values a tampered element or root is given (faultTest)
TamperedHashes == LeafArgs \cup {"tampered_hash"}
TamperedRoots == {"wrong_root_hash", sha256("t1")}
\* the root a proof object claims: the one the chaincode computes for it,
\* the one the contract computes for it, or neither
RootKinds == {"chaincode", "contract", "wrong"}
ClaimedRoot(kind, leaf, proof) ==
    CASE kind = "chaincode" -> MerkleFold(leaf, proof, 1)
      [] kind = "contract" -> ProofLoop(leaf, proofHexes(proof), leftsOf(proof), 1)
      [] kind = "wrong" -> "wrong_root_hash"

\* what each verifier returns for a proof object
Verdicts(object) ==
    [chaincode |-> verifyMerkleProof(object.leaf, object.proof, object.root),
     contract |-> verifyProof(object.leaf, proofHexes(object.proof),
                              leftsOf(object.proof), object.root),
     engine |-> merkleVerifyProof(object.leaf, object.proof, object.root)]

NoObject == [root |-> "", proof |-> <<>>, leaf |-> ""]
MerkleNoCall ==
    [now |-> Verdicts(NoObject), op |-> "none", count |-> 0, index |-> 0,
     element |-> 0, before |-> Verdicts(NoObject)]

MerkleInit ==
    /\ ledger = NoObject
    /\ prev = NoObject
    /\ last = MerkleNoCall
    /\ now = 0
    /\ calls = 0
    /\ running = [i \in Invocations |-> Idle]

\* a proof object is made from the one at hand and given to the verifiers
MerkleCall(call, object) ==
    /\ calls < MaxMerkleCalls
    /\ calls' = calls + 1
    /\ prev' = ledger
    /\ ledger' = object
    /\ last' = [call EXCEPT !.now = Verdicts(object), !.before = Verdicts(ledger)]
    /\ UNCHANGED <<now, running>>

\* a run starts with the proof of transaction `index` of a batch, generated
\* by the engine,
GenerateProof(count, index) ==
    /\ ledger = NoObject
    /\ MerkleCall([MerkleNoCall EXCEPT !.op = "generateProof", !.count = count,
                                    !.index = index],
                  generateProof(createBatch(count), index))

\* or with a proof object of a caller's own making
Present(leaf, proof, kind) ==
    /\ ledger = NoObject
    /\ MerkleCall([MerkleNoCall EXCEPT !.op = "present"],
                  [root |-> ClaimedRoot(kind, leaf, proof), proof |-> proof,
                   leaf |-> leaf])

\* one element's sibling hash is replaced by a different value
TamperHash(k, h) ==
    /\ k \in 1..Len(ledger.proof)
    /\ h # ledger.proof[k].hash
    /\ MerkleCall([MerkleNoCall EXCEPT !.op = "tamperHash", !.element = k],
                  [ledger EXCEPT !.proof[k].hash = h])

\* one element's left flag is replaced by the other value
TamperFlag(k) ==
    /\ k \in 1..Len(ledger.proof)
    /\ MerkleCall([MerkleNoCall EXCEPT !.op = "tamperFlag", !.element = k],
                  [ledger EXCEPT !.proof[k].left = ~@])

\* the claimed root is replaced by a different value
TamperRoot(r) ==
    /\ ledger # NoObject
    /\ r # ledger.root
    /\ MerkleCall([MerkleNoCall EXCEPT !.op = "tamperRoot"], [ledger EXCEPT !.root = r])

MerkleNext ==
    \/ \E count \in 1..MaxBatch : \E index \in 0..(count - 1) : GenerateProof(count, index)
    \/ \E leaf \in LeafArgs, proof \in ProofArgs, kind \in RootKinds :
           Present(leaf, proof, kind)
    \/ \E k \in 1..3, h \in TamperedHashes : TamperHash(k, h)
    \/ \E k \in 1..3 : TamperFlag(k)
    \/ \E r \in TamperedRoots : TamperRoot(r)

MerkleSpec == MerkleInit /\ [][MerkleNext]_vars

\* ============================================================== claims
\* what the claims read off a ledger
StatusOf(L, e) == IF e \in DOMAIN L.epoch THEN L.epoch[e].status ELSE "NONE"
ReasonOf(L, e) == IF e \in DOMAIN L.epoch THEN L.epoch[e].abortReason ELSE NoReason
EveryonePrepared(epoch) ==
    \A p \in DOMAIN epoch.preparations : epoch.preparations[p] = "PREPARED"
\* time elapsed since startTime when the last invocation ran
Elapsed(epoch) == now - epoch.startTime
\* the last invocation was `op` on an epoch that existed when it was made
CalledOn(op) == last.op = op /\ last.epochId \in DOMAIN prev.epoch
Before == prev.epoch[last.epochId]
After == ledger.epoch[last.epochId]

\* C1 (as stated): a commit on an existing epoch succeeds if and only if
\* every participant's preparation state is PREPARED.
C1_CommitIffAllPrepared ==
    CalledOn("commit") => (last.ok <=> EveryonePrepared(Before))

\* C1 (amended): a commit on an existing epoch succeeds if and only if the
\* epoch's status is PREPARED, and then every participant's preparation
\* state is PREPARED and the epoch becomes COMMITTED; all participants being
\* PREPARED is necessary, not sufficient.
C1_CommitIffStatusPrepared ==
    CalledOn("commit") =>
        /\ last.ok <=> Before.status = "PREPARED"
        /\ last.ok => EveryonePrepared(Before) /\ After.status = "COMMITTED"
        /\ ~last.ok => ledger = prev

\* a commit that was refused although every participant is PREPARED
C1_Witness ==
    /\ CalledOn("commit") /\ ~last.ok
    /\ EveryonePrepared(Before)
    /\ Before.status = "COMMITTED"

\* C2: the status stored for an epochId only ever changes along
\* PREPARING->PREPARED, PREPARED->COMMITTED, COMMITTED->COMPLETED,
\* PREPARING->ABORTED or PREPARED->ABORTED.
AllowedTransitions ==
    {<<"NONE", "PREPARING">>, <<"PREPARING", "PREPARED">>,
     <<"PREPARED", "COMMITTED">>, <<"COMMITTED", "COMPLETED">>,
     <<"PREPARING", "ABORTED">>, <<"PREPARED", "ABORTED">>}

C2_StatusTransitions ==
    \A e \in EpochIds :
        \/ StatusOf(prev, e) = StatusOf(ledger, e)
        \/ <<StatusOf(prev, e), StatusOf(ledger, e)>> \in AllowedTransitions

\* C3: abort succeeds only on an epoch that is PREPARING or PREPARED; on a
\* COMMITTED, COMPLETED or ABORTED epoch it fails and changes nothing.
C3_AbortOnlyFromActive ==
    (CalledOn("abort") /\ Before.status \notin {"PREPARING", "PREPARED"})
        => /\ ~last.ok
           /\ After.status = Before.status
           /\ After.abortReason = Before.abortReason

\* C4: beginEpoch on an epochId that has ever been created fails and leaves
\* the existing epoch record unchanged, whatever the epoch's state.
C4_DuplicateEpochRejected ==
    CalledOn("beginEpoch") => ~last.ok /\ After = Before

\* C5: an epoch with a participant that has not prepared cannot be
\* committed: a commit on it fails, and every record whose status is
\* COMMITTED or COMPLETED has all its participants PREPARED.
C5_CommittedImpliesAllPrepared ==
    /\ \A e \in DOMAIN ledger.epoch :
           ledger.epoch[e].status \in {"COMMITTED", "COMPLETED"}
               => EveryonePrepared(ledger.epoch[e])
    /\ \A e \in DOMAIN ledger.completed : EveryonePrepared(ledger.completed[e])
    /\ (CalledOn("commit") /\ ~EveryonePrepared(Before))
           => ~last.ok /\ ledger = prev

\* a commit refused on an epoch where one participant has prepared and the
\* other is still WAITING
C5_Witness ==
    /\ CalledOn("commit") /\ ~last.ok
    /\ \E p \in DOMAIN Before.preparations : Before.preparations[p] = "WAITING"
    /\ \E p \in DOMAIN Before.preparations : Before.preparations[p] = "PREPARED"

\* what C6 says a timed-out prepare does
TimedOutPrepareOutcome ==
    /\ ~last.ok /\ last.err = "timed_out"
    /\ After.preparations = Before.preparations
    /\ After.status = "ABORTED"
    /\ After.abortReason = "TIMEOUT"

C7_TimeoutIsFinal ==
    [][\A e \in EpochIds :
          (last.op = "cleanupTimeouts" /\ e \in last.epochs) =>
              /\ StatusOf(ledger', e) = "ABORTED"
              /\ ReasonOf(ledger', e) = "TIMEOUT"
              /\ ~(last'.op \in {"prepare", "commit"} /\ last'.epochId = e /\ last'.ok)]_vars

\* C8 (as stated): a commit on a PREPARED epoch whose elapsed time exceeds
\* its timeout does not move the epoch to COMMITTED.
C8_LateCommitRefused ==
    (/\ CalledOn("commit")
     /\ Before.status = "PREPARED"
     /\ Elapsed(Before) > Before.timeout)
        => After.status # "COMMITTED"

\* C8 (amended): commit makes no timeout check: a commit on a PREPARED
\* epoch succeeds and moves it to COMMITTED whatever time has elapsed.
C8_CommitIgnoresTimeout ==
    (CalledOn("commit") /\ Before.status = "PREPARED")
        => last.ok /\ After.status = "COMMITTED"

\* a commit that succeeded after the epoch's timeout had elapsed
C8_Witness ==
    /\ CalledOn("commit") /\ last.ok
    /\ Before.status = "PREPARED"
    /\ Elapsed(Before) > Before.timeout
    /\ After.status = "COMMITTED"

\* the epochs C9 says cleanupTimeouts aborts
Overdue(L) ==
    {e \in DOMAIN L.epoch :
        /\ L.epoch[e].status \in {"PREPARING", "PREPARED"}
        /\ Elapsed(L.epoch[e]) > L.epoch[e].timeout}

\* C9: cleanupTimeouts aborts with reason TIMEOUT exactly the PREPARING or
\* PREPARED epochs whose elapsed time is greater than their timeout,
\* returns exactly those, and leaves every other epoch unchanged.
C9_CleanupExact ==
    last.op = "cleanupTimeouts" =>
        /\ last.ok
        /\ last.epochs = Overdue(prev)
        /\ DOMAIN ledger.epoch = DOMAIN prev.epoch
        /\ \A e \in Overdue(prev) :
               /\ ledger.epoch[e].status = "ABORTED"
               /\ ledger.epoch[e].abortReason = "TIMEOUT"
        /\ \A e \in DOMAIN prev.epoch \ Overdue(prev) :
               ledger.epoch[e] = prev.epoch[e]

\* C10: a prepare on an epoch already aborted by a timeout fails with a
\* wrong-state error and leaves the ledger unchanged.
C10_PrepareAfterTimeoutAbort ==
    (/\ CalledOn("prepare")
     /\ Before.status = "ABORTED"
     /\ Before.abortReason = "TIMEOUT")
        => ~last.ok /\ last.err = "wrong_state" /\ ledger = prev

\* a participant still WAITING prepares after the timeout abort
C10_Witness ==
    /\ CalledOn("prepare") /\ last.err = "wrong_state"
    /\ Before.status = "ABORTED" /\ Before.abortReason = "TIMEOUT"
    /\ last.participantId \in DOMAIN Before.preparations
    /\ Before.preparations[last.participantId] = "WAITING"

\* the participants of an epoch record that have not prepared yet
WaitingIn(epoch) ==
    {p \in DOMAIN epoch.preparations : epoch.preparations[p] = "WAITING"}

\* C11: a record that is not ABORTED has status PREPARING exactly when some
\* participant is WAITING; a successful prepare returns allPrepared = true
\* exactly when it marks the last WAITING participant, which is exactly when
\* it moves the epoch to PREPARED; and PREPARING->PREPARED happens in no
\* other invocation.
C11_PreparingIffWaiting ==
    /\ \A e \in DOMAIN ledger.epoch :
           ledger.epoch[e].status # "ABORTED" =>
               (ledger.epoch[e].status = "PREPARING"
                    <=> WaitingIn(ledger.epoch[e]) # {})
    /\ (CalledOn("prepare") /\ last.ok) =>
           /\ Before.status = "PREPARING"
           /\ WaitingIn(After) = WaitingIn(Before) \ {last.participantId}
           /\ last.all <=> WaitingIn(Before) = {last.participantId}
           /\ last.all <=> After.status = "PREPARED"
    /\ \A e \in EpochIds :
           (StatusOf(prev, e) = "PREPARING" /\ StatusOf(ledger, e) = "PREPARED")
               => /\ last.op = "prepare" /\ last.epochId = e
                  /\ last.ok /\ last.all

\* the second of two participants prepares: the first prepare returned
\* allPrepared = false and left the epoch PREPARING, this one returns true
C11_Witness ==
    /\ CalledOn("prepare") /\ last.ok /\ last.all
    /\ Cardinality(DOMAIN Before.preparations) = 2
    /\ Before.status = "PREPARING"
    /\ Cardinality(WaitingIn(Before)) = 1
    /\ After.status = "PREPARED"

\* C12: confirmCommit on an epoch that is not COMMITTED, or by a
\* participantId that is not in the epoch's participant list, fails, records
\* no confirmation and leaves the ledger unchanged.
C12_ConfirmCommitRejects ==
    (/\ CalledOn("confirmCommit")
     /\ \/ Before.status # "COMMITTED"
        \/ ~Includes(Before.participants, last.participantId))
        => ~last.ok /\ ledger = prev

\* the participants of an epoch record whose commit is not confirmed yet
PendingIn(epoch) ==
    {p \in DOMAIN epoch.commitConfirmations :
        epoch.commitConfirmations[p] # "CONFIRMED"}

\* C13: a record with status COMPLETED has every participant's
\* commit-confirmation CONFIRMED; a COMMITTED epoch becomes COMPLETED only
\* in the successful confirmCommit that records the last outstanding
\* confirmation, that call returns allConfirmed = true, and a confirmCommit
\* that leaves a confirmation outstanding returns false and leaves the
\* epoch COMMITTED.
C13_CompletedIffAllConfirmed ==
    /\ \A e \in DOMAIN ledger.epoch :
           ledger.epoch[e].status = "COMPLETED" =>
               /\ DOMAIN ledger.epoch[e].commitConfirmations
                      = Elems(ledger.epoch[e].participants)
               /\ PendingIn(ledger.epoch[e]) = {}
    /\ \A e \in DOMAIN ledger.completed :
           ledger.completed[e].status = "COMPLETED" =>
               PendingIn(ledger.completed[e]) = {}
    /\ \A e \in EpochIds :
           (StatusOf(prev, e) = "COMMITTED" /\ StatusOf(ledger, e) = "COMPLETED")
               => /\ last.op = "confirmCommit" /\ last.epochId = e
                  /\ last.ok /\ last.all
                  /\ PendingIn(prev.epoch[e]) = {last.participantId}
    /\ (CalledOn("confirmCommit") /\ last.ok /\ Before.status = "COMMITTED") =>
           /\ last.all <=> PendingIn(Before) = {last.participantId}
           /\ last.all <=> After.status = "COMPLETED"
           /\ ~last.all => After.status = "COMMITTED"
           /\ PendingIn(After) = PendingIn(Before) \ {last.participantId}

\* with two participants, the second confirmation completes the epoch
C13_Witness ==
    /\ CalledOn("confirmCommit") /\ last.ok /\ last.all
    /\ Before.status = "COMMITTED"
    /\ Cardinality(DOMAIN Before.commitConfirmations) = 2
    /\ Cardinality(PendingIn(Before)) = 1
    /\ After.status = "COMPLETED"

\* C14: a successful commit sets the status to COMMITTED and every
\* participant's commit-confirmation to PENDING and leaves the participant
\* list and the preparation states as they were; a commit on an epoch that
\* is not PREPARED, or on no epoch, fails and leaves the ledger unchanged.
C14_CommitEffect ==
    /\ (CalledOn("commit") /\ last.ok) =>
           /\ After.status = "COMMITTED"
           /\ After.commitConfirmations
                  = [p \in Elems(Before.participants) |-> "PENDING"]
           /\ After.participants = Before.participants
           /\ After.preparations = Before.preparations
           /\ ledger.completed[last.epochId] = After
    /\ (CalledOn("commit") /\ Before.status # "PREPARED")
           => ~last.ok /\ ledger = prev
    /\ (last.op = "commit" /\ last.epochId \notin DOMAIN prev.epoch)
           => ~last.ok /\ ledger = prev

\* a commit of a PREPARED epoch with two participants went through
C14_Witness ==
    /\ CalledOn("commit") /\ last.ok
    /\ Before.status = "PREPARED"
    /\ Len(Before.participants) = 2
    /\ After.commitConfirmations = [p \in {"A", "B"} |-> "PENDING"]

\* C15: in every reachable state and for every epochId, list and timeout a
\* caller can pass, beginEpoch with the empty list fails and leaves the
\* ledger as it was, and a beginEpoch that succeeds leaves under that
\* epochId a PREPARING record whose participants are the list passed, each
\* of them WAITING; the invocations actually made behave so too.
C15_BeginEpochEffect ==
    /\ \A e \in EpochIdArgs, pl \in ParticipantLists, t \in Timeouts :
           LET r == BeginEpochOp(ledger, e, pl, t, now)
           IN  /\ pl = <<>> => ~r.ok /\ r.ledger = ledger
               /\ r.ok => /\ e \in DOMAIN r.ledger.epoch
                          /\ r.ledger.epoch[e].status = "PREPARING"
                          /\ r.ledger.epoch[e].participants = pl
                          /\ r.ledger.epoch[e].preparations
                                 = [p \in Elems(pl) |-> "WAITING"]
    /\ last.op = "beginEpoch" =>
           /\ last.err = "empty_participants" => ledger = prev
           /\ last.ok =>
                  /\ ledger.epoch[last.epochId].status = "PREPARING"
                  /\ ledger.epoch[last.epochId].participants # <<>>
                  /\ WaitingIn(ledger.epoch[last.epochId])
                         = Elems(ledger.epoch[last.epochId].participants)
                  /\ ledger.active[last.epochId] = ledger.epoch[last.epochId]

\* an epoch was created for the list A, B and, in the same state, a
\* beginEpoch of a second epochId with the empty list would be refused
C15_Witness ==
    /\ last.op = "beginEpoch" /\ last.ok
    /\ ledger.epoch[last.epochId].participants = <<"A", "B">>
    /\ ledger.epoch[last.epochId].preparations = [p \in {"A", "B"} |-> "WAITING"]
    /\ BeginEpochOp(ledger, "e2", <<>>, 1, now).err = "empty_participants"

\* C16: every call of the happy path succeeds and hands the epoch on to the
\* next one, whatever the order of the participants: beginEpoch of an unused
\* epochId with a non-empty list succeeds; prepare by a WAITING participant
\* of a PREPARING epoch whose timeout has not elapsed succeeds, marks it
\* PREPARED and, if it was the last one, leaves the epoch PREPARED; commit of
\* a PREPARED epoch succeeds and leaves it COMMITTED; confirmCommit by a
\* participant of a COMMITTED epoch succeeds, confirms it and, if it was the
\* last one, leaves the epoch COMPLETED.
C16_HappyPath ==
    /\ \A e \in EpochIds, pl \in ParticipantLists \ {<<>>}, t \in Timeouts :
           e \notin DOMAIN ledger.epoch =>
               LET r == BeginEpochOp(ledger, e, pl, t, now)
               IN  r.ok /\ r.ledger.epoch[e] = NewEpoch(pl, t, now)
    /\ (/\ CalledOn("prepare")
        /\ Before.status = "PREPARING"
        /\ last.participantId \in WaitingIn(Before)
        /\ Elapsed(Before) <= Before.timeout)
           => /\ last.ok
              /\ WaitingIn(After) = WaitingIn(Before) \ {last.participantId}
              /\ After.status = IF WaitingIn(After) = {} THEN "PREPARED"
                                ELSE "PREPARING"
    /\ (CalledOn("commit") /\ Before.status = "PREPARED")
           => /\ last.ok
              /\ After.status = "COMMITTED"
              /\ PendingIn(After) = Elems(After.participants)
    /\ (/\ CalledOn("confirmCommit")
        /\ Before.status = "COMMITTED"
        /\ last.participantId \in PendingIn(Before))
           => /\ last.ok
              /\ PendingIn(After) = PendingIn(Before) \ {last.participantId}
              /\ After.status = IF PendingIn(After) = {} THEN "COMPLETED"
                                ELSE "COMMITTED"

\* the whole happy path of the two participants A and B has run: six calls
\* were made, the last one is the second confirmation, the epoch is COMPLETED
C16_Witness ==
    /\ calls = 6
    /\ CalledOn("confirmCommit") /\ last.ok /\ last.epochId = "e1"
    /\ After.participants = <<"A", "B">>
    /\ After.status = "COMPLETED"
    /\ DOMAIN ledger.epoch = {"e1"}

\* the epoch recorded under e is in one of `statuses` and its timeout has
\* elapsed
OverdueIn(e, statuses) ==
    /\ StatusOf(ledger, e) \in statuses
    /\ Elapsed(ledger.epoch[e]) > ledger.epoch[e].timeout

\* C17 (as stated): an epoch that is PREPARING or PREPARED after its timeout
\* has elapsed is eventually ABORTED.
C17_OverdueEventuallyAborted ==
    \A e \in EpochIds :
        OverdueIn(e, {"PREPARING", "PREPARED"}) ~> (StatusOf(ledger, e) = "ABORTED")

\* C17 (amended): an epoch that is PREPARING after its timeout has elapsed
\* is eventually ABORTED; one that is PREPARED is eventually ABORTED or, by
\* a commit that comes first, COMMITTED; no epoch stays PREPARING or
\* PREPARED forever.
C17_OverdueEventuallyLeaves ==
    \A e \in EpochIds :
        /\ OverdueIn(e, {"PREPARING"}) ~> (StatusOf(ledger, e) = "ABORTED")
        /\ OverdueIn(e, {"PREPARED"})
               ~> (StatusOf(ledger, e) \in {"ABORTED", "COMMITTED"})
        /\ (StatusOf(ledger, e) \in {"PREPARING", "PREPARED"})
               ~> (StatusOf(ledger, e) \notin {"PREPARING", "PREPARED"})

\* cleanupTimeouts has just aborted an epoch that was PREPARED and overdue
C17_Witness ==
    /\ last.op = "cleanupTimeouts" /\ last.epochs = {"e1"}
    /\ prev.epoch["e1"].status = "PREPARED"
    /\ now - prev.epoch["e1"].startTime > prev.epoch["e1"].timeout
    /\ ledger.epoch["e1"].status = "ABORTED"
    /\ ledger.epoch["e1"].abortReason = "TIMEOUT"

\* C18: of two prepare invocations for the same participant of the same
\* epoch, run one ledger access at a time, at most one gets past the
\* WAITING check and returns successfully.
C18_NoDoublePrepare ==
    \A i, j \in Invocations :
        (i # j /\ running[i].participantId = running[j].participantId)
            => ~(running[i].ok /\ running[j].ok)

\* the root key of the last anchorRoot invocation, and what it names
LastRootKey == createRootKey(last.chainId, last.blockNumber)
CalledAnchorRoot ==
    last.op = "anchorRoot" /\ last.chainId # "" /\ last.blockNumber # ""

ValidSigners(L) ==
    LET messageHash == createMessageHash(last.chainId, last.blockNumber, last.merkleRoot)
    IN  {v \in Elems(L["VALIDATORS"]) :
            \E i \in 1..Len(last.signatures.array) :
                /\ last.signatures.array[i].validator = v
                /\ last.signatures.array[i].signature = ExpectedSig(messageHash, v)}

\* C20: an anchorRoot for a (chainId, blockNumber) that has no anchor, with
\* well-formed arguments, succeeds if and only if the number of distinct
\* current validators whose valid signature is among the signatures is at
\* least requiredSignatures.
C20_QuorumEnforced ==
    (/\ CalledAnchorRoot /\ LastRootKey \notin DOMAIN prev
     /\ last.signatures.json /\ ParsesAsJson(last.metadata))
        => (last.ok <=> Cardinality(ValidSigners(prev)) >= prev["REQUIRED_SIGNATURES"])

\* C21: an anchor stored in the contract is never changed and never
\* deleted by a later anchorRoot, addValidator or removeValidator, the
\* removal of a validator that signed it included.
C21_AnchorsImmutable ==
    \A key \in DOMAIN prev.anchors :
        /\ key \in DOMAIN ledger.anchors
        /\ ledger.anchors[key] = prev.anchors[key]
        /\ ledger.anchors[key].timestamp # 0

\* validator a1, whose signature every stored anchor was accepted with,
\* has been removed while an anchor was stored, and the anchor is as it was
C21_Witness ==
    /\ DOMAIN prev.anchors # {}
    /\ last.op = "removeValidator" /\ last.validator = "a1"
    /\ last.events # <<>>
    /\ "a1" \notin ledger.isValidator
    /\ \A key \in DOMAIN prev.anchors : ledger.anchors[key] = prev.anchors[key]

\* C22: a failing anchorRoot leaves the whole registry state as it was and
\* emits no event; a successful one writes the full anchor record and its
\* index entry, changes nothing else, and emits RootAnchored exactly once.
C22_AnchorAllOrNothing ==
    last.op = "anchorRoot" =>
        IF ~last.ok
        THEN /\ ledger = prev
             /\ last.events = <<>>
             /\ last.err \in {"required", "already_anchored", "invalid_signatures_format",
                              "insufficient_signatures", "invalid_signatures",
                              "invalid_metadata"}
        ELSE /\ LastRootKey \notin DOMAIN prev
             /\ DOMAIN ledger = DOMAIN prev \cup
                    {LastRootKey, createIndexKey(last.chainId, last.blockNumber)}
             /\ \A k \in DOMAIN prev : ledger[k] = prev[k]
             /\ ledger[LastRootKey].chainId = last.chainId
             /\ ledger[LastRootKey].blockNumber = ParseInt(last.blockNumber)
             /\ ledger[LastRootKey].merkleRoot = last.merkleRoot
             /\ ledger[LastRootKey].status = "ANCHORED"
             /\ Len(ledger[LastRootKey].validatorSignatures) >= prev["REQUIRED_SIGNATURES"]
             /\ ledger[createIndexKey(last.chainId, last.blockNumber)] = LastRootKey
             /\ Len(last.events) = 1
             /\ last.events[1].name = "RootAnchored"
             /\ last.events[1].merkleRoot = last.merkleRoot

\* an anchorRoot that passed every signature check failed on its metadata,
\* the last check before the writes, with another anchor already stored
C22_Witness ==
    /\ CalledAnchorRoot
    /\ ~last.ok /\ last.err = "invalid_metadata"
    /\ LastRootKey \notin DOMAIN ledger
    /\ \E c \in ChainIds, b \in BlockNumbers : createRootKey(c, b) \in DOMAIN ledger

\* C23: requiredSignatures is at most the number of validators in every
\* reachable state of the contract, whatever addValidator and
\* removeValidator calls were made after the deployment.
C23_QuorumAttainable ==
    /\ ledger.requiredSignatures <= Cardinality(ledger.isValidator)
    /\ ledger.requiredSignatures <= Len(ledger.validatorsList)

\* C24: getAnchor(chainId, blockNumber) returns the anchor stored for the
\* key when there is one, and fails, returning no record, when there is
\* none.
C24_GetAnchorOrNotFound ==
    last.op = "getAnchor" =>
        LET key == AnchorKey(last.chainId, last.blockNumber)
        IN  IF key \in DOMAIN prev.anchors
            THEN /\ last.ok
                 /\ last.value = <<prev.anchors[key].root, prev.anchors[key].timestamp,
                                   prev.anchors[key].submitter>>
            ELSE ~last.ok /\ last.value = <<>>

\* C25: storage keys are unique per (chainId, block number): no two stored
\* anchor records carry the same (chainId, blockNumber) fields, and an
\* anchorRoot meets an existing record only when that record is of the
\* same chainId and block number.
C25_KeysUniquePerEntity ==
    /\ \A k1 \in KeyRootKeys \cap DOMAIN ledger, k2 \in KeyRootKeys \cap DOMAIN ledger :
           (ledger[k1].chainId = ledger[k2].chainId
              /\ ledger[k1].blockNumber = ledger[k2].blockNumber) => k1 = k2
    /\ (last.op = "anchorRoot" /\ last.err = "already_anchored") =>
           /\ prev[LastRootKey].chainId = last.chainId
           /\ prev[LastRootKey].blockNumber = ParseInt(last.blockNumber)

\* what the claims read off the verifier's world state
TrustedRootsOf(L) == L["TRUSTED_ROOTS"]
LastTrustedRootKey == TrustedRootKey(last.sourceChain, last.blockNumber)
CalledVerifyTransaction ==
    /\ last.op = "verifyTransaction"
    /\ last.sourceChain # "" /\ last.blockNumber # "" /\ last.transactionData # ""

\* C26: verifyTransaction fails with the no-trusted-root error when no
\* trusted root is stored for (sourceChain, blockNumber), and with the
\* proof-invalid error when the root recomputed from the proof differs from
\* the trusted one; either way the world state is as before (no
\* verification record, no change to a verified list) and no event is set.
C26_VerifyFailuresWriteNothing ==
    CalledVerifyTransaction =>
        /\ LastTrustedRootKey \notin DOMAIN TrustedRootsOf(prev) =>
               /\ ~last.ok /\ last.err = "no_trusted_root"
               /\ ledger = prev /\ last.events = <<>>
        /\ ( /\ LastTrustedRootKey \in DOMAIN TrustedRootsOf(prev)
             /\ last.merkleProof.json
             /\ MerkleFold(sha256(last.transactionData), last.merkleProof.array, 1)
                    # TrustedRootsOf(prev)[LastTrustedRootKey].merkleRoot ) =>
               /\ ~last.ok /\ last.err = "proof_invalid"
               /\ ledger = prev /\ last.events = <<>>

\* a verifyTransaction failed on its proof against a trusted root under
\* which a transaction had been verified before
C26_Witness ==
    /\ CalledVerifyTransaction
    /\ ~last.ok /\ last.err = "proof_invalid"
    /\ LastTrustedRootKey \in DOMAIN TrustedRootsOf(ledger)
    /\ TrustedRootsOf(ledger)[LastTrustedRootKey].verifiedTransactions # <<>>
    /\ VerificationKey(sha256(last.transactionData)) \notin DOMAIN ledger

C27_VerifiersAgree ==
    last.op # "none" => last.now.chaincode = last.now.contract

\* C28: for every batch of 1..MaxBatch transactions and every index of it,
\* the proof generated for that leaf verifies against the batch's root:
\* the engine's verifyProof and the chaincode's verifyMerkleProof return
\* true for it.
C28_ProofRoundTrip ==
    last.op = "generateProof" =>
        /\ last.now.engine
        /\ last.now.chaincode

\* the operations that replace one field of a proof object
Tampers == {"tamperHash", "tamperFlag", "tamperRoot"}
\* the hash each verifier has accumulated when it reaches element k of the
\* proof object that was tampered with
ChaincodeAccAt(k) == MerkleFold(prev.leaf, SubSeq(prev.proof, 1, k - 1), 1)
ContractAccAt(k) ==
    ProofLoop(prev.leaf, proofHexes(SubSeq(prev.proof, 1, k - 1)),
              leftsOf(SubSeq(prev.proof, 1, k - 1)), 1)

\* C29 (as stated): when a proof object verifies, replacing one element's
\* sibling hash, one element's left flag or the claimed root by a
\* different value makes the same verifier return false.
C29_TamperDetected ==
    last.op \in Tampers =>
        /\ last.before.chaincode => ~last.now.chaincode
        /\ last.before.contract => ~last.now.contract

\* C29 (amended): as stated for a replaced sibling hash and a replaced
\* root; a replaced left flag makes the verifier return false unless the
\* element's sibling hash equals the hash accumulated so far, and then the
\* result stays true.
C29_TamperDetectedUnlessSelfSibling ==
    last.op \in Tampers =>
        /\ last.before.chaincode =>
               (last.now.chaincode <=>
                    /\ last.op = "tamperFlag"
                    /\ prev.proof[last.element].hash = ChaincodeAccAt(last.element))
        /\ last.before.contract =>
               (last.now.contract <=>
                    /\ last.op = "tamperFlag"
                    /\ prev.proof[last.element].hash = ContractAccAt(last.element))

\* the second element of a two-element proof that the chaincode verifier
\* accepted was given another sibling hash, and the verifier rejects it
C29_Witness ==
    /\ last.op = "tamperHash" /\ last.element = 2
    /\ Len(prev.proof) = 2
    /\ last.before.chaincode
    /\ ~last.now.chaincode

\* the keys of the verification records of the transactions submitted
VerificationKeys == {VerificationKey(sha256(t)) : t \in TransactionDatas}

\* C31: a verification record, once stored for a transaction hash, keeps
\* its sourceChain, blockNumber and verifier through every later
\* verifyTransaction, verifyTransactionBatch and setTrustedRoot.
C31_RecordImmutable ==
    \A key \in VerificationKeys \cap DOMAIN prev :
        /\ key \in DOMAIN ledger
        /\ ledger[key].sourceChain = prev[key].sourceChain
        /\ ledger[key].blockNumber = prev[key].blockNumber
        /\ ledger[key].verifier = prev[key].verifier

\* the world state item k of the last batch was verified in: the state the
\* items before it left, started from the state before the call
RECURSIVE StateBeforeItem(_)
StateBeforeItem(k) ==
    IF k = 1 THEN prev
    ELSE VerifyItem(StateBeforeItem(k - 1), last.batch.transactions[k - 1]).ledger

\* C32: the report of verifyTransactionBatch has one entry per item, in
\* order; entry k says what verifyTransaction returns for item k in the
\* state the items before it left; items after a failing one are still
\* processed; and successfulVerifications + failedVerifications =
\* totalTransactions.
C32_BatchItemIsolation ==
    (last.op = "verifyTransactionBatch" /\ last.batch.json) =>
        LET items == last.batch.transactions
            report == last.report
        IN  /\ last.ok
            /\ report.totalTransactions = Len(items)
            /\ Len(report.results) = Len(items)
            /\ \A k \in 1..Len(items) :
                   report.results[k].success = VerifyItem(StateBeforeItem(k), items[k]).ok
            /\ report.successfulVerifications + report.failedVerifications
                   = report.totalTransactions
            /\ report.successfulVerifications
                   = Cardinality({k \in 1..Len(items) : report.results[k].success})
            /\ ledger = IF items = <<>> THEN prev
                        ELSE VerifyItem(StateBeforeItem(Len(items)), items[Len(items)]).ledger

\* a batch whose first item failed and whose second item was verified and
\* recorded
C32_Witness ==
    /\ last.op = "verifyTransactionBatch"
    /\ Len(last.batch.transactions) = 2
    /\ ~last.report.results[1].success
    /\ last.report.results[2].success
    /\ VerificationKey(sha256(last.batch.transactions[2].transactionData)) \in DOMAIN ledger
    /\ ledger # prev

\* ---------------------------------------------------------------- C33
\* the event each mutating coordinator call sets when it returns
EventOf(op) ==
    CASE op = "beginEpoch" -> "EpochBegun"
      [] op = "prepare" -> "ParticipantPrepared"
      [] op = "commit" -> "EpochCommitted"
      [] op = "abort" -> "EpochAborted"
      [] op = "confirmCommit" -> "CommitConfirmed"
      [] OTHER -> "none"

\* the epochs the last call moved to ABORTED
NewlyAborted ==
    {e \in DOMAIN ledger.epoch :
        /\ ledger.epoch[e].status = "ABORTED"
        /\ e \in DOMAIN prev.epoch => prev.epoch[e].status # "ABORTED"}

C34_ActiveIndexConsistent ==
    /\ DOMAIN ledger.active =
           {e \in DOMAIN ledger.epoch :
               ledger.epoch[e].status \in {"PREPARING", "PREPARED"}}
    /\ \A e \in DOMAIN ledger.active : ledger.active[e] = ledger.epoch[e]

\* ---------------------------------------------------------------- C35
\* C35: each epochId is listed in at most one of ACTIVE_EPOCHS,
\* COMPLETED_EPOCHS and ABORTED_EPOCHS, and an epoch listed in
\* COMPLETED_EPOCHS is not recorded as ABORTED in its epoch~{epochId}
\* record or in ABORTED_EPOCHS.
C35_IndexesDisjoint ==
    /\ DOMAIN ledger.active \cap DOMAIN ledger.completed = {}
    /\ DOMAIN ledger.active \cap DOMAIN ledger.aborted = {}
    /\ DOMAIN ledger.completed \cap DOMAIN ledger.aborted = {}
    /\ \A e \in DOMAIN ledger.completed :
           /\ ledger.completed[e].status \in {"COMMITTED", "COMPLETED"}
           /\ ledger.epoch[e].status # "ABORTED"

\* ---------------------------------------------------------------- C36
\* the calls C36 speaks of
SingleEpochOps == {"beginEpoch", "prepare", "commit", "abort", "confirmCommit"}

\* C36: a beginEpoch, prepare, commit, abort or confirmCommit call that
\* throws, other than a prepare that throws because the epoch has timed
\* out, leaves the epoch records and the three indexes as it found them.
C36_FailureLeavesState ==
    (/\ last.op \in SingleEpochOps
     /\ ~last.ok
     /\ ~(last.op = "prepare" /\ last.err = "timed_out"))
        => ledger = prev

\* a participant that had prepared called prepare again on an epoch that
\* is still PREPARING and has not timed out, and was turned away
C36_Witness ==
    /\ last.op = "prepare" /\ ~last.ok /\ last.err = "already_prepared"
    /\ prev.epoch[last.epochId].status = "PREPARING"
    /\ ~TimedOut(prev.epoch[last.epochId], now)
    /\ ledger = prev

\* ---------------------------------------------------------------- C37
\* C37: prepare by a participant that is already PREPARED, on an epoch
\* still PREPARING, throws and leaves the ledger as it was; and no call
\* takes a participant of a stored epoch from PREPARED back to WAITING
\* (so WAITING -> PREPARED happens at most once per participant and epoch).
C37_PreparedOnce ==
    /\ (/\ last.op = "prepare"
        /\ last.epochId \in DOMAIN prev.epoch
        /\ prev.epoch[last.epochId].status = "PREPARING"
        /\ last.participantId \in DOMAIN prev.epoch[last.epochId].preparations
        /\ prev.epoch[last.epochId].preparations[last.participantId] = "PREPARED")
           => (~last.ok /\ ledger = prev)
    /\ \A e \in DOMAIN prev.epoch \cap DOMAIN ledger.epoch :
           \A p \in DOMAIN prev.epoch[e].preparations :
               prev.epoch[e].preparations[p] = "PREPARED" =>
                   /\ p \in DOMAIN ledger.epoch[e].preparations
                   /\ ledger.epoch[e].preparations[p] = "PREPARED"

\* ---------------------------------------------------------------- C38
\* the stores an epoch can be listed in
Stores == {"epoch", "active", "completed", "aborted"}

\* epoch e is stored in L1 exactly as in L2: same record under epoch~e and
\* same entry, or absence, in each index
SameEpoch(L1, L2, e) ==
    \A s \in Stores :
        /\ e \in DOMAIN L1[s] <=> e \in DOMAIN L2[s]
        /\ e \in DOMAIN L1[s] => L1[s][e] = L2[s][e]

\* C38: beginEpoch, prepare, commit, abort and confirmCommit on epoch e,
\* whether they return or throw, leave the record and the index entries
\* of every other epoch as they found them.
C38_OtherEpochsUntouched ==
    last.op \in SingleEpochOps =>
        \A e \in EpochIds \ {last.epochId} : SameEpoch(prev, ledger, e)

\* commit of e1 moved it to COMPLETED_EPOCHS while e2 stayed active
C38_Witness ==
    /\ last.op = "commit" /\ last.ok /\ last.epochId = "e1"
    /\ "e2" \in DOMAIN ledger.active
    /\ "e1" \in DOMAIN ledger.completed /\ "e1" \notin DOMAIN ledger.active
    /\ SameEpoch(prev, ledger, "e2")

\* cleanupTimeouts changed two epochs in one call
C38_SeveralWitness ==
    /\ last.op = "cleanupTimeouts"
    /\ \A e \in EpochIds : ~SameEpoch(prev, ledger, e)

\* ---------------------------------------------------------------- C39
\* both invocations of prepare have returned, for two different participants
BothPrepared ==
    /\ \A i \in Invocations : running[i].pc = "done" /\ running[i].ok
    /\ running["i1"].participantId # running["i2"].participantId

\* C39: when two prepare invocations for different participants of the
\* same epoch, interleaved at their ledger reads and writes, have both
\* returned, the stored epoch (epoch~id and its ACTIVE_EPOCHS entry) has
\* both participants PREPARED, and status PREPARED when no participant is
\* left WAITING for it.
C39_NoLostUpdate ==
    BothPrepared =>
        \A epoch \in {ledger.epoch[ConcEpoch], ledger.active[ConcEpoch]} :
            /\ \A i \in Invocations :
                   epoch.preparations[running[i].participantId] = "PREPARED"
            /\ Elems(epoch.participants) =
                   {running[i].participantId : i \in Invocations}
                       => epoch.status = "PREPARED"

\* ---------------------------------------------------------------- C40
\* the hashes of the verification records stored for a source chain and block
RecordedFor(sourceChain, blockNumber) ==
    {ledger[key].transactionHash :
        key \in {k \in VerificationKeys \cap DOMAIN ledger :
                    /\ ledger[k].sourceChain = sourceChain
                    /\ ledger[k].blockNumber = blockNumber}}

\* C40: the hashes listed in verifiedTransactions of each stored trusted
\* root are exactly the hashes whose verification record names that root's
\* source chain and block, also after setTrustedRoot is called again for
\* a key that already had a trusted root.
C40_VerifiedListMatchesRecords ==
    \A rootKey \in DOMAIN TrustedRootsOf(ledger) :
        LET trustedRoot == TrustedRootsOf(ledger)[rootKey]
        IN  Elems(trustedRoot.verifiedTransactions) =
                RecordedFor(trustedRoot.sourceChain, trustedRoot.blockNumber)

====
